---- MODULE Spec2Model ----
(***************************************************************************)
(* Session store concurrency and transcript archival of the gateway's      *)
(* sessions.* request handlers and the /restore text command.              *)
(*                                                                         *)
(* Strings that are formatted or parsed (session ids, file names,          *)
(* timestamps) are sequences of one-character strings, so that the         *)
(* handlers' regular expressions are modelled by what they match.          *)
(* A JavaScript value that may be undefined is <<>> (undefined) or <<v>>.  *)
(* A JavaScript object used as a map (the store, the directory) is a       *)
(* function whose DOMAIN is the set of keys present.                       *)
(***************************************************************************)
EXTENDS Integers, Sequences, FiniteSets, TLC

VARIABLES
  store,    \* the persisted session store of the one store path: key -> SessionEntry
  lock,     \* the request holding the store path's exclusive section, 0 when free
  files,    \* the sessions directory: file name -> transcript content
  clock,    \* Date.now(), in ms after the instant IsoString(0) names
  runs,     \* session ids with a live embedded run
  nextId,   \* the number of randomUUID() results handed out
  issued,   \* the number of requests issued so far
  cache,    \* archivedSessionsCache: cache key -> the list last shown by /restore
  abortMemory, \* the in-process abort flags: the keys setAbortMemory(key, true) was called for
  req       \* per request slot: the handler's position and locals

vars == <<store, lock, files, clock, runs, nextId, issued, cache, abortMemory, req>>

----------------------------------------------------------------------------
(* Bounds of the model *)

MaxOps == 2
MaxUpdates == 3
MaxSeqOps == 3
MaxClock == 1

----------------------------------------------------------------------------
(* Values *)

Undef == <<>>
Some(v) == <<v>>
IsDef(o) == o /= Undef
Val(o) == o[1]

Digit(n) == CASE n = 0 -> "0" [] n = 1 -> "1" [] n = 2 -> "2" [] n = 3 -> "3"
              [] n = 4 -> "4" [] n = 5 -> "5" [] n = 6 -> "6" [] n = 7 -> "7"
              [] n = 8 -> "8" [] n = 9 -> "9"

Digits == {"0", "1", "2", "3", "4", "5", "6", "7", "8", "9"}

Pad2(n) == <<Digit((n \div 10) % 10), Digit(n % 10)>>
Pad3(n) == <<Digit((n \div 100) % 10), Digit((n \div 10) % 10), Digit(n % 10)>>

DotJsonl == <<".", "j", "s", "o", "n", "l">>

Range(q) == {q[i] : i \in 1..Len(q)}

(* Map-like JavaScript objects. *)
Has(m, k) == k \in DOMAIN m
Put(m, k, v) == [x \in (DOMAIN m) \cup {k} |-> IF x = k THEN v ELSE m[x]]
Del(m, k) == [x \in (DOMAIN m) \ {k} |-> m[x]]
EmptyMap == [x \in {} |-> 0]

----------------------------------------------------------------------------
(* SessionEntry *)

AllowListed == {"thinkingLevel", "verboseLevel", "reasoningLevel", "responseUsage",
                "model", "contextTokens", "sendPolicy", "label", "lastChannel",
                "lastTo", "skillsSnapshot"}

TokenCounters == {"inputTokens", "outputTokens", "totalTokens"}

Fields == {"sessionId", "updatedAt", "systemSent", "abortedLastRun"}
            \cup AllowListed \cup TokenCounters
            \cup {"sessionFile", "groupActivation", "groupActivationNeedsSystemIntro",
                  "counter"}

(* An object literal: the fields given, every other field undefined. *)
Obj(given) == [f \in Fields |-> IF f \in DOMAIN given THEN given[f] ELSE Undef]

(* { ...base, ...over }: object spread; spreading undefined gives no fields. *)
Spread(base, over) ==
  [f \in Fields |-> IF f \in DOMAIN over THEN over[f] ELSE base[f]]

NoFields == [f \in Fields |-> Undef]

----------------------------------------------------------------------------
(* KeyResolver *)

MainKey == "agent:main:main"

GroupKeys == <<"agent:main:grp", "grp", "legacy:grp">>
MainKeys == <<"agent:main:main", "main">>

RequestKeys == {MainKeys[i] : i \in 1..Len(MainKeys)}
                 \cup {GroupKeys[i] : i \in 1..Len(GroupKeys)}

(* resolveGatewaySessionStoreTarget: storeKeys[0] is the canonical key. *)
StoreKeys(key) ==
  IF \E i \in 1..Len(MainKeys) : MainKeys[i] = key THEN MainKeys ELSE GroupKeys

CanonicalKey(key) == StoreKeys(key)[1]

(* target.storeKeys.find((candidate) => store[candidate]) *)
FindExisting(view, storeKeys) ==
  LET hits == {i \in 1..Len(storeKeys) : Has(view, storeKeys[i])}
  IN  IF hits = {} THEN Undef
      ELSE Some(storeKeys[CHOOSE i \in hits : \A j \in hits : i <= j])

(* The migration step every handler's guarded update starts with. *)
MigrateNoDelete(view, storeKeys) ==
  LET primaryKey == storeKeys[1]
      existingKey == FindExisting(view, storeKeys)
  IN  IF IsDef(existingKey) /\ Val(existingKey) /= primaryKey /\ ~Has(view, primaryKey)
      THEN Put(view, primaryKey, view[Val(existingKey)])
      ELSE view

(* The entry of the first alias that has one is moved to the primary key, over
   the entry there. *)
MigrateOverwrites(view, storeKeys) ==
  LET primaryKey == storeKeys[1]
      hits == {i \in 2..Len(storeKeys) : Has(view, storeKeys[i])}
      existingKey == storeKeys[CHOOSE i \in hits : \A j \in hits : i <= j]
  IN  IF hits /= {}
      THEN Del(Put(view, primaryKey, view[existingKey]), existingKey)
      ELSE view

Migrate(view, storeKeys) ==
  LET primaryKey == storeKeys[1]
      existingKey == FindExisting(view, storeKeys)
  IN  IF IsDef(existingKey) /\ Val(existingKey) /= primaryKey /\ ~Has(view, primaryKey)
      THEN Del(Put(view, primaryKey, view[Val(existingKey)]), Val(existingKey))
      ELSE view

----------------------------------------------------------------------------
(* ArchivalManager: file names *)

BaseSec == 14

(* new Date(now).toISOString(): YYYY-MM-DDTHH:mm:ss.sssZ, always with milliseconds. *)
IsoString(now) ==
  <<"2", "0", "2", "6", "-", "0", "1", "-", "1", "7", "T", "0", "3", ":", "0", "5", ":">>
    \o Pad2((BaseSec + (now \div 1000)) % 60) \o <<".">> \o Pad3(now % 1000) \o <<"Z">>

(* .replaceAll(":", "-") *)
ReplaceAllColons(s) == [i \in 1..Len(s) |-> IF s[i] = ":" THEN "-" ELSE s[i]]

ReasonDeleted == <<"d", "e", "l", "e", "t", "e", "d">>
ReasonBak == <<"b", "a", "k">>
ReasonReplaced == <<"r", "e", "p", "l", "a", "c", "e", "d">>

(* `${path}.${reason}.${ts}` *)
ArchivedName(path, reason, now) ==
  path \o <<".">> \o reason \o <<".">> \o ReplaceAllColons(IsoString(now))

From(s, i) == SubSeq(s, i, Len(s))

AllIn(s, set) == \A i \in 1..Len(s) : s[i] \in set

(* s matches ^\d{4}-\d{2}-\d{2}Tbody+Z?$ with body the character class given. *)
MatchTs(s, body) ==
  /\ Len(s) >= 12
  /\ AllIn(SubSeq(s, 1, 4), Digits) /\ s[5] = "-"
  /\ AllIn(SubSeq(s, 6, 7), Digits) /\ s[8] = "-"
  /\ AllIn(SubSeq(s, 9, 10), Digits) /\ s[11] = "T"
  /\ LET rest == From(s, 12)
     IN  \/ AllIn(rest, body)
         \/ /\ Len(rest) >= 2
            /\ rest[Len(rest)] = "Z"
            /\ AllIn(SubSeq(rest, 1, Len(rest) - 1), body)

DigitsDash == Digits \cup {"-"}
DigitsDotDash == Digits \cup {"-", "."}

NoDot(r) == \A i \in 1..Len(r) : r[i] /= "."

LowerAlpha(r) ==
  AllIn(r, {"a", "b", "c", "d", "e", "f", "g", "h", "i", "j", "k", "l", "m", "n",
            "o", "p", "q", "r", "s", "t", "u", "v", "w", "x", "y", "z"})

(* The reason group: [^.]+ in the restore patterns, [a-z]+ in the RPC listing's. *)
ReasonOk(r, reasonClass) ==
  /\ Len(r) >= 1
  /\ IF reasonClass = "a-z" THEN LowerAlpha(r) ELSE NoDot(r)

(* The splits <<i, j>> of s as (.+) \.jsonl\. (reason) \. (timestamp): group 1 is
   s[1..i], the reason s[i+8..j], the timestamp s[j+2..]. *)
ArchiveSplits(s, reasonClass, body) ==
  {ij \in (1..Len(s)) \X (1..Len(s)) :
     /\ ij[1] + 8 <= ij[2] /\ ij[2] + 2 <= Len(s)
     /\ SubSeq(s, ij[1] + 1, ij[1] + 7) = DotJsonl \o <<".">>
     /\ ReasonOk(SubSeq(s, ij[1] + 8, ij[2]), reasonClass)
     /\ s[ij[2] + 1] = "."
     /\ MatchTs(From(s, ij[2] + 2), body)}


(* The groups of a match, (.+) being greedy: [sessionId, reason, timestamp], or
   Undef when the name does not match. *)
MatchGroups(s, splits) ==
  IF splits = {} THEN Undef
  ELSE LET ij == CHOOSE x \in splits : \A y \in splits : y[1] <= x[1]
       IN  Some([sessionId |-> SubSeq(s, 1, ij[1]),
                 reason |-> SubSeq(s, ij[1] + 8, ij[2]),
                 timestamp |-> From(s, ij[2] + 2)])

(* /^(.+)\.jsonl\.([^.]+)\.(\d{4}-\d{2}-\d{2}T[\d-]+Z?)$/ *)
MatchRestore(s) == MatchGroups(s, ArchiveSplits(s, "^.", DigitsDash))

(* /^(.+)\.jsonl\.([a-z]+)\.(\d{4}-\d{2}-\d{2}T[\d.-]+Z?)$/ *)
MatchArchivedListing(s) == MatchGroups(s, ArchiveSplits(s, "a-z", DigitsDotDash))

(* filePath.replace(/\.[^.]+\.\d{4}-\d{2}-\d{2}T[\d-]+Z?$/, ""): the name without
   its .<reason>.<timestamp> suffix, or the name itself when nothing matches. *)
StripSuffixWith(s, body) ==
  LET starts == {k \in 1..Len(s) :
                   /\ s[k] = "."
                   /\ \E j \in (k + 1)..Len(s) :
                        /\ j >= k + 2
                        /\ s[j] = "."
                        /\ NoDot(SubSeq(s, k + 1, j - 1))
                        /\ MatchTs(From(s, j + 1), body)}
  IN  IF starts = {} THEN s
      ELSE SubSeq(s, 1, (CHOOSE k \in starts : \A m \in starts : k <= m) - 1)

RestoredPath(s) == StripSuffixWith(s, DigitsDash)

(* session-utils archiveFileOnDisk(filePath, reason): renames the file to its
   archived name for the current time and returns that name. *)
ArchiveFileOnDisk(fs, path, reason, now) ==
  LET archived == ArchivedName(path, reason, now)
  IN  [fs |-> Put(Del(fs, path), archived, fs[path]), archived |-> archived]

(* fs.renameSync(from, to), from existing: to is replaced when it exists. *)
Rename(fs, from, to) == Put(Del(fs, from), to, fs[from])

(* resolveSessionTranscriptCandidates(sessionId, storePath, sessionFile, agentId) *)
TranscriptCandidates(sessionId, sessionFile) ==
  LET byId == sessionId \o DotJsonl
  IN  IF IsDef(sessionFile) /\ Val(sessionFile) /= byId
      THEN <<Val(sessionFile), byId>>
      ELSE <<byId>>

----------------------------------------------------------------------------
(* Request slots *)

Procs == {1, 2, 3}

NoPatch == [kind |-> "none", v |-> ""]

NoMaxLines == [kind |-> "absent", tenths |-> 0]

(* A slot's record: the request (op, valid: whether its params pass the schema,
   key, patch, maxLines, deleteTranscript, file, keyOpt), the handler's position
   (pc), its locals (view: the store view inside a guarded update; entry,
   sessionId, queueKeys, filePath, archived, kept, targetKey; failed: the
   candidates whose archival threw) and its response (resp, listed). *)
IdleReq == [op |-> "idle", pc |-> "idle", valid |-> TRUE, key |-> "", view |-> EmptyMap,
            patch |-> NoPatch, maxLines |-> NoMaxLines, deleteTranscript |-> TRUE,
            file |-> <<>>, keyOpt |-> Undef,
            entry |-> Undef, sessionId |-> Undef, queueKeys |-> [keys |-> {}, ids |-> {}], filePath |-> <<>>,
            raw |-> <<>>, archived |-> <<>>, kept |-> 0,
            targetKey |-> Undef, storePath |-> TRUE, abortKey |-> Undef,
            authorized |-> TRUE,
            failed |-> {}, dirFails |-> FALSE, unreadable |-> {},
            resp |-> "", listed |-> <<>>, fx |-> <<>>]

(* A handler's call of a collaborator or of the file system, in call order. *)
Fx(r, e) == [r EXCEPT !.fx = Append(@, e)]

Uuid(n) == <<"u", Digit(n)>>

----------------------------------------------------------------------------
(* GuardedStore: updateSessionStore(storePath, fn) *)

LockUnguarded(p) == TRUE

LockFree(p) == lock = 0

(* The exclusive section of the store path can be entered. *)
CanAcquire(p) == LockFree(p)

----------------------------------------------------------------------------
(* sessions.patch *)

Patches == {[kind |-> "inc", v |-> ""], [kind |-> "label", v |-> "L2"]}

(* applySessionsPatchToStore: the entry at storeKey, created when missing, with the
   patch applied. *)
ApplyPatch(view, storeKey, patch, now, uuid) ==
  LET existing == IF Has(view, storeKey)
                  THEN [view[storeKey] EXCEPT !["updatedAt"] =
                          IF IsDef(@) /\ Val(@) > now THEN @ ELSE Some(now)]
                  ELSE Obj([sessionId |-> Some(uuid), updatedAt |-> Some(now)])
      next == CASE patch.kind = "inc" ->
                     [existing EXCEPT !["counter"] =
                        IF IsDef(@) THEN Some(Val(@) + 1) ELSE Some(1)]
                [] patch.kind = "label" ->
                     [existing EXCEPT !["label"] = Some(patch.v)]
  IN  Put(view, storeKey, next)

PatchRequest(p, key, patch) ==
  /\ req[p].pc = "idle"
  /\ issued' = issued + 1
  /\ req' = [req EXCEPT ![p] = [IdleReq EXCEPT !.op = "patch", !.pc = "patch.lock",
                                               !.key = key, !.patch = patch]]
  /\ UNCHANGED <<store, lock, files, clock, runs, nextId, cache, abortMemory>>

(* The guarded update is entered; fn runs up to its await. *)
PatchEnter(p) ==
  /\ req[p].pc = "patch.lock"
  /\ CanAcquire(p)
  /\ lock' = p
  /\ req' = [req EXCEPT ![p].pc = "patch.apply",
                        ![p].view = Migrate(store, StoreKeys(req[p].key))]
  /\ UNCHANGED <<store, files, clock, runs, nextId, issued, cache, abortMemory>>

(* applySessionsPatchToStore resolves; the view is persisted and the section left. *)
PatchCommit(p) ==
  /\ req[p].pc = "patch.apply"
  /\ LET primaryKey == StoreKeys(req[p].key)[1]
         fresh == ~Has(req[p].view, primaryKey)
     IN  /\ store' = ApplyPatch(req[p].view, primaryKey, req[p].patch, clock,
                                Uuid(nextId))
         /\ nextId' = IF fresh THEN nextId + 1 ELSE nextId
  /\ lock' = 0
  /\ req' = [req EXCEPT ![p].pc = "idle", ![p].resp = "ok", ![p].view = EmptyMap,
                        ![p].fx = Append(@, "store")]
  /\ UNCHANGED <<files, clock, runs, issued, cache, abortMemory>>

----------------------------------------------------------------------------
(* sessions.reset *)

ResetRequest(p, key) ==
  /\ req[p].pc = "idle"
  /\ issued' = issued + 1
  /\ req' = [req EXCEPT ![p] = [IdleReq EXCEPT !.op = "reset", !.pc = "reset.lock",
                                               !.key = key]]
  /\ UNCHANGED <<store, lock, files, clock, runs, nextId, cache, abortMemory>>

(* The entry reset builds: a fresh id, cleared flags, the allow-listed fields of
   the prior entry (entry?.field is undefined when there is none). *)
KeepsAll(entry, uuid, now) ==
  IF IsDef(entry)
  THEN [Val(entry) EXCEPT !["sessionId"] = Some(uuid), !["updatedAt"] = Some(now),
                          !["systemSent"] = Some(FALSE),
                          !["abortedLastRun"] = Some(FALSE)]
  ELSE Obj([sessionId |-> Some(uuid), updatedAt |-> Some(now),
            systemSent |-> Some(FALSE), abortedLastRun |-> Some(FALSE)])

NextEntry(entry, uuid, now) ==
  [f \in Fields |->
     CASE f = "sessionId" -> Some(uuid)
       [] f = "updatedAt" -> Some(now)
       [] f \in {"systemSent", "abortedLastRun"} -> Some(FALSE)
       [] f \in AllowListed -> IF IsDef(entry) THEN Val(entry)[f] ELSE Undef
       [] OTHER -> Undef]

(* store[key], undefined when there is no entry. *)
Lookup(view, key) == IF Has(view, key) THEN Some(view[key]) ELSE Undef

ResetEnter(p) ==
  /\ req[p].pc = "reset.lock"
  /\ CanAcquire(p)
  /\ lock' = p
  /\ LET storeKeys == StoreKeys(req[p].key)
         primaryKey == storeKeys[1]
         migrated == Migrate(store, storeKeys)
         entry == Lookup(migrated, primaryKey)
     IN  req' = [req EXCEPT ![p].pc = "reset.commit",
                            ![p].entry = entry,
                            ![p].view = Put(migrated, primaryKey,
                                            NextEntry(entry, Uuid(nextId), clock))]
  /\ nextId' = nextId + 1
  /\ UNCHANGED <<store, files, clock, runs, issued, cache, abortMemory>>

ResetCommit(p) ==
  /\ req[p].pc = "reset.commit"
  /\ store' = req[p].view
  /\ lock' = 0
  /\ req' = [req EXCEPT ![p].pc = "idle", ![p].resp = "ok", ![p].view = EmptyMap,
                        ![p].fx = Append(@, "store")]
  /\ UNCHANGED <<files, clock, runs, nextId, issued, cache, abortMemory>>

----------------------------------------------------------------------------
(* sessions.delete *)

(* loadSessionEntry(key): the persisted entry of the session, read without the
   store's exclusive section. *)
LoadSessionEntry(key) ==
  LET existingKey == FindExisting(store, StoreKeys(key))
  IN  IF IsDef(existingKey) THEN Some(store[Val(existingKey)]) ELSE Undef

SessionIdOf(entry) == IF IsDef(entry) THEN Val(entry)["sessionId"] ELSE Undef

(* target.canonicalKey === mainKey *)
IsProtectedRawKey(key) == key = MainKey

IsProtected(key) == CanonicalKey(key) = MainKey

(* queueKeys: target.storeKeys, target.canonicalKey and the session id; the
   session keys and the session ids of the set are kept apart. *)
QueueKeys(key, sessionId) ==
  [keys |-> Range(StoreKeys(key)) \cup {CanonicalKey(key)},
   ids |-> IF IsDef(sessionId) THEN {Val(sessionId)} ELSE {}]

(* The handler up to its first await: the protected key check, then queues,
   sub-agents and the live run. *)
DeleteRequest(p, key, deleteTranscript) ==
  /\ req[p].pc = "idle"
  /\ issued' = issued + 1
  /\ LET r == [IdleReq EXCEPT !.op = "delete", !.key = key,
                              !.deleteTranscript = deleteTranscript]
         entry == LoadSessionEntry(key)
         sessionId == SessionIdOf(entry)
     IN  IF IsProtected(key)
         THEN req' = [req EXCEPT ![p] = [r EXCEPT !.resp = "INVALID_REQUEST"]]
         ELSE req' = [req EXCEPT ![p] =
                [r EXCEPT !.entry = entry, !.sessionId = sessionId,
                          !.queueKeys = QueueKeys(key, sessionId),
                          !.pc = IF IsDef(sessionId) THEN "delete.wait"
                                 ELSE "delete.lock",
                          !.fx = <<"clearQueues", "stopSubagents">>
                                   \o IF IsDef(sessionId) THEN <<"abort">> ELSE <<>>]]
  /\ UNCHANGED <<store, lock, files, clock, runs, nextId, cache, abortMemory>>

(* The wait resolves true and the handler goes to the archive loop at once. *)
DeleteWaitEndedArchives(p) ==
  /\ req[p].pc = "delete.wait"
  /\ Val(req[p].sessionId) \notin runs
  /\ req' = [req EXCEPT ![p].pc = "delete.archive"]
  /\ UNCHANGED <<store, lock, files, clock, runs, nextId, issued, cache, abortMemory>>

(* waitForEmbeddedPiRunEnd(sessionId, 15_000) resolves true: no run is live. *)
DeleteWaitEnded(p) ==
  /\ req[p].pc = "delete.wait"
  /\ Val(req[p].sessionId) \notin runs
  /\ req' = [req EXCEPT ![p].pc = "delete.lock"]
  /\ UNCHANGED <<store, lock, files, clock, runs, nextId, issued, cache, abortMemory>>

(* ... resolves false: the run is still live when the wait expires. *)
DeleteWaitTimeoutContinues(p) ==
  /\ req[p].pc = "delete.wait"
  /\ Val(req[p].sessionId) \in runs
  /\ req' = [req EXCEPT ![p].pc = "delete.lock"]
  /\ UNCHANGED <<store, lock, files, clock, runs, nextId, issued, cache, abortMemory>>

DeleteWaitTimeout(p) ==
  /\ req[p].pc = "delete.wait"
  /\ Val(req[p].sessionId) \in runs
  /\ req' = [req EXCEPT ![p].pc = "idle", ![p].resp = "UNAVAILABLE"]
  /\ UNCHANGED <<store, lock, files, clock, runs, nextId, issued, cache, abortMemory>>

DeleteEnter(p) ==
  /\ req[p].pc = "delete.lock"
  /\ CanAcquire(p)
  /\ lock' = p
  /\ LET storeKeys == StoreKeys(req[p].key)
         primaryKey == storeKeys[1]
         migrated == Migrate(store, storeKeys)
     IN  req' = [req EXCEPT ![p].pc = "delete.commit",
                            ![p].view = IF Has(migrated, primaryKey)
                                        THEN Del(migrated, primaryKey)
                                        ELSE migrated]
  /\ UNCHANGED <<store, files, clock, runs, nextId, issued, cache, abortMemory>>

DeleteCommit(p) ==
  /\ req[p].pc = "delete.commit"
  /\ store' = req[p].view
  /\ lock' = 0
  /\ req' = [req EXCEPT ![p].pc = "delete.archive", ![p].view = EmptyMap,
                        ![p].fx = Append(@, "store")]
  /\ UNCHANGED <<files, clock, runs, nextId, issued, cache, abortMemory>>

(* The loop ends at the first candidate whose archival throws. *)
RECURSIVE ArchiveStopsAtFailure(_, _, _, _, _, _)
ArchiveStopsAtFailure(fs, archived, candidates, i, failing, now) ==
  IF i > Len(candidates) THEN [fs |-> fs, archived |-> archived]
  ELSE IF ~Has(fs, candidates[i])
       THEN ArchiveStopsAtFailure(fs, archived, candidates, i + 1, failing, now)
       ELSE IF i \in failing THEN [fs |-> fs, archived |-> archived]
       ELSE LET a == ArchiveFileOnDisk(fs, candidates[i], ReasonDeleted, now)
            IN  ArchiveStopsAtFailure(a.fs, Append(archived, a.archived), candidates,
                                      i + 1, failing, now)

(* The archival loop over the candidates from index i on: [fs, archived]. A
   candidate in failing throws in archiveFileOnDisk and is skipped. *)
RECURSIVE ArchiveCandidates(_, _, _, _, _, _)
ArchiveCandidates(fs, archived, candidates, i, failing, now) ==
  IF i > Len(candidates) THEN [fs |-> fs, archived |-> archived]
  ELSE IF ~Has(fs, candidates[i]) \/ i \in failing
       THEN ArchiveCandidates(fs, archived, candidates, i + 1, failing, now)
       ELSE LET a == ArchiveFileOnDisk(fs, candidates[i], ReasonDeleted, now)
            IN  ArchiveCandidates(a.fs, Append(archived, a.archived), candidates,
                                  i + 1, failing, now)

SessionFileOf(entry) == IF IsDef(entry) THEN Val(entry)["sessionFile"] ELSE Undef

DeleteArchive(p, failing) ==
  /\ req[p].pc = "delete.archive"
  /\ LET sessionId == req[p].sessionId
         out == IF req[p].deleteTranscript /\ IsDef(sessionId)
                THEN ArchiveCandidates(files, <<>>,
                       TranscriptCandidates(Val(sessionId),
                         IF IsDef(req[p].entry) THEN Val(req[p].entry)["sessionFile"]
                         ELSE Undef),
                       1, failing, clock)
                ELSE [fs |-> files, archived |-> <<>>]
     IN  /\ files' = out.fs
         /\ req' = [req EXCEPT ![p].pc = "idle", ![p].resp = "ok",
                               ![p].archived = out.archived,
                               ![p].failed = failing,
                               ![p].fx = @ \o [i \in 1..Len(out.archived) |-> "archive"]]
  /\ UNCHANGED <<store, lock, clock, runs, nextId, issued, cache, abortMemory>>

----------------------------------------------------------------------------
(* sessions.compact *)

DefaultMaxLines == 400

(* typeof p.maxLines === "number" && Number.isFinite(p.maxLines)
     ? Math.max(1, Math.floor(p.maxLines)) : 400; a number is given in tenths. *)
MaxLinesOf(m) ==
  IF m.kind = "number"
  THEN LET floor == m.tenths \div 10 IN IF floor > 1 THEN floor ELSE 1
  ELSE DefaultMaxLines

(* raw.split(/\r?\n/).filter((l) => l.trim().length > 0): a transcript is its
   sequence of lines, line 0 standing for an empty or blank line. *)
NonEmptyLines(raw) == SelectSeq(raw, LAMBDA l : l /= 0)

(* lines.slice(-maxLines), for lines.length > maxLines >= 1 *)
SliceFirst(lines, maxLines) == SubSeq(lines, 1, maxLines)

SliceLast(lines, maxLines) == SubSeq(lines, Len(lines) - maxLines + 1, Len(lines))

(* if (lines.length <= maxLines): nothing to compact *)
StrictlyWithinBudget(n, maxLines) == n < maxLines

WithinBudget(n, maxLines) == n <= maxLines

CompactRequest(p, key, maxLines) ==
  /\ req[p].pc = "idle"
  /\ issued' = issued + 1
  /\ req' = [req EXCEPT ![p] = [IdleReq EXCEPT !.op = "compact", !.pc = "compact.lock1",
                                               !.key = key, !.maxLines = maxLines]]
  /\ UNCHANGED <<store, lock, files, clock, runs, nextId, cache, abortMemory>>

(* The short critical section: migrate and read the entry. *)
CompactEnter1(p) ==
  /\ req[p].pc = "compact.lock1"
  /\ CanAcquire(p)
  /\ lock' = p
  /\ LET storeKeys == StoreKeys(req[p].key)
         migrated == Migrate(store, storeKeys)
     IN  req' = [req EXCEPT ![p].pc = "compact.commit1",
                            ![p].view = migrated,
                            ![p].entry = Lookup(migrated, storeKeys[1])]
  /\ UNCHANGED <<store, files, clock, runs, nextId, issued, cache, abortMemory>>

(* The first section is persisted and not left. *)
CompactCommit1KeepsLock(p) ==
  /\ req[p].pc = "compact.commit1"
  /\ store' = req[p].view
  /\ lock' = lock
  /\ req' = [req EXCEPT ![p].pc = "compact.io", ![p].view = EmptyMap,
                        ![p].fx = Append(@, "store")]
  /\ UNCHANGED <<files, clock, runs, nextId, issued, cache, abortMemory>>

CompactCommit1(p) ==
  /\ req[p].pc = "compact.commit1"
  /\ store' = req[p].view
  /\ lock' = 0
  /\ req' = [req EXCEPT ![p].pc = "compact.io", ![p].view = EmptyMap,
                        ![p].fx = Append(@, "store")]
  /\ UNCHANGED <<files, clock, runs, nextId, issued, cache, abortMemory>>

(* .find((candidate) => fs.existsSync(candidate)) *)
FirstExisting(fs, candidates) ==
  LET hits == {i \in 1..Len(candidates) : Has(fs, candidates[i])}
  IN  IF hits = {} THEN Undef
      ELSE Some(candidates[CHOOSE i \in hits : \A j \in hits : i <= j])

(* The transcript work, outside the store's exclusive section. *)
CompactIO(p) ==
  /\ req[p].pc = "compact.io"
  /\ LET entry == req[p].entry
         sessionId == SessionIdOf(entry)
         maxLines == MaxLinesOf(req[p].maxLines)
         filePath == IF IsDef(sessionId)
                     THEN FirstExisting(files,
                            TranscriptCandidates(Val(sessionId), Val(entry)["sessionFile"]))
                     ELSE Undef
         raw == files[Val(filePath)]
         lines == NonEmptyLines(raw)
         a == ArchiveFileOnDisk(files, Val(filePath), ReasonBak, clock)
         keptLines == SliceLast(lines, maxLines)
     IN  CASE ~IsDef(sessionId) ->
                /\ req' = [req EXCEPT ![p].pc = "idle", ![p].resp = "no sessionId"]
                /\ files' = files
           [] IsDef(sessionId) /\ ~IsDef(filePath) ->
                /\ req' = [req EXCEPT ![p].pc = "idle", ![p].resp = "no transcript",
                                      ![p].sessionId = sessionId]
                /\ files' = files
           [] IsDef(sessionId) /\ IsDef(filePath)
                /\ WithinBudget(Len(lines), maxLines) ->
                /\ req' = [req EXCEPT ![p].pc = "idle", ![p].resp = "not compacted",
                                      ![p].sessionId = sessionId,
                                      ![p].filePath = Val(filePath),
                                      ![p].raw = raw, ![p].kept = Len(lines)]
                /\ files' = files
           [] OTHER ->
                /\ req' = [req EXCEPT ![p].pc = "compact.lock2",
                                      ![p].sessionId = sessionId,
                                      ![p].filePath = Val(filePath),
                                      ![p].raw = raw, ![p].kept = Len(keptLines),
                                      ![p].archived = <<a.archived>>,
                                      ![p].fx = @ \o <<"archive", "write">>]
                /\ files' = Put(a.fs, Val(filePath), keptLines)
  /\ UNCHANGED <<store, lock, clock, runs, nextId, issued, cache, abortMemory>>

(* The finalizing update: the token counters of the entry now at the key. *)
ClearTokenCounters(view, entryKey, now) ==
  IF ~Has(view, entryKey) THEN view
  ELSE Put(view, entryKey,
           [f \in Fields |-> IF f \in TokenCounters THEN Undef
                             ELSE IF f = "updatedAt" THEN Some(now)
                             ELSE view[entryKey][f]])

CompactEnter2(p) ==
  /\ req[p].pc = "compact.lock2"
  /\ CanAcquire(p)
  /\ lock' = p
  /\ req' = [req EXCEPT ![p].pc = "compact.commit2",
                        ![p].view = ClearTokenCounters(store, StoreKeys(req[p].key)[1],
                                                       clock)]
  /\ UNCHANGED <<store, files, clock, runs, nextId, issued, cache, abortMemory>>

CompactCommit2(p) ==
  /\ req[p].pc = "compact.commit2"
  /\ store' = req[p].view
  /\ lock' = 0
  /\ req' = [req EXCEPT ![p].pc = "idle", ![p].resp = "compacted",
                        ![p].view = EmptyMap, ![p].fx = Append(@, "store")]
  /\ UNCHANGED <<files, clock, runs, nextId, issued, cache, abortMemory>>

----------------------------------------------------------------------------
(* sessions.restore *)

(* if (fs.existsSync(restoredPath)) archiveFileOnDisk(restoredPath, "replaced") *)
OccupantOverwritten(fs, restoredPath, now) == [fs |-> fs, archived |-> <<>>]

ArchiveOccupant(fs, restoredPath, now) ==
  IF Has(fs, restoredPath)
  THEN LET a == ArchiveFileOnDisk(fs, restoredPath, ReasonReplaced, now)
       IN  [fs |-> a.fs, archived |-> <<a.archived>>]
  ELSE [fs |-> fs, archived |-> <<>>]

(* catch (err) of fs.renameSync(filePath, restoredPath): the handler answers and
   returns; the files stay as the occupant's archival left them. *)
MoveFailedRollsBack(before, afterArchive) == before

MoveFailed(before, afterArchive) == afterArchive

(* if (!fs.existsSync(filePath)): NOT_FOUND *)
ExistenceUnchecked(fs, filePath) == TRUE

ArchivedFileExists(fs, filePath) == Has(fs, filePath)

(* The handler up to its guarded update: all of the file work. renameFails names
   the renames that throw: 1 the occupant's archival, 2 the move into place. *)
RestoreRequest(p, file, keyOpt, renameFails) ==
  /\ req[p].pc = "idle"
  /\ issued' = issued + 1
  /\ LET r == [IdleReq EXCEPT !.op = "restore", !.file = file, !.keyOpt = keyOpt,
                              !.failed = renameFails]
         match == MatchRestore(file)
         restoredPath == RestoredPath(file)
         occupied == Has(files, restoredPath)
         a == ArchiveOccupant(files, restoredPath, clock)
         r1 == [r EXCEPT !.archived = a.archived,
                         !.fx = [i \in 1..Len(a.archived) |-> "archive"]]
     IN  CASE ~ArchivedFileExists(files, file) ->
                /\ req' = [req EXCEPT ![p] = [r EXCEPT !.resp = "NOT_FOUND"]]
                /\ files' = files
           [] ArchivedFileExists(files, file) /\ ~IsDef(match) ->
                /\ req' = [req EXCEPT ![p] = [r EXCEPT !.resp = "INVALID_REQUEST"]]
                /\ files' = files
           [] ArchivedFileExists(files, file) /\ IsDef(match) /\ occupied /\ 1 \in renameFails ->
                /\ req' = [req EXCEPT ![p] = [r EXCEPT !.resp = "INTERNAL_ERROR"]]
                /\ files' = files
           [] ArchivedFileExists(files, file) /\ IsDef(match) /\ ~(occupied /\ 1 \in renameFails)
                /\ (2 \in renameFails \/ ~Has(a.fs, file)) ->
                /\ req' = [req EXCEPT ![p] = [r1 EXCEPT !.resp = "INTERNAL_ERROR"]]
                /\ files' = MoveFailed(files, a.fs)
           [] OTHER ->
                /\ req' = [req EXCEPT ![p] =
                     [r1 EXCEPT !.sessionId = Some(Val(match).sessionId),
                                !.filePath = restoredPath,
                                !.fx = Append(@, "rename"),
                                !.pc = IF IsDef(keyOpt) THEN "restore.lock" ELSE "idle",
                                !.resp = IF IsDef(keyOpt) THEN "" ELSE "ok"]]
                /\ files' = Rename(a.fs, file, restoredPath)
  /\ UNCHANGED <<store, lock, clock, runs, nextId, cache, abortMemory>>

(* store[primaryKey] = { ...store[primaryKey], sessionId, sessionFile, updatedAt } *)
PointEntryAt(view, key, sessionId, restoredPath, now) ==
  Put(view, key,
      Spread(IF Has(view, key) THEN view[key] ELSE NoFields,
             [sessionId |-> Some(sessionId), sessionFile |-> Some(restoredPath),
              updatedAt |-> Some(now)]))

RestoreEnter(p) ==
  /\ req[p].pc = "restore.lock"
  /\ CanAcquire(p)
  /\ lock' = p
  /\ req' = [req EXCEPT ![p].pc = "restore.commit",
                        ![p].view = PointEntryAt(store, StoreKeys(Val(req[p].keyOpt))[1],
                                                 Val(req[p].sessionId), req[p].filePath,
                                                 clock)]
  /\ UNCHANGED <<store, files, clock, runs, nextId, issued, cache, abortMemory>>

RestoreCommit(p) ==
  /\ req[p].pc = "restore.commit"
  /\ store' = req[p].view
  /\ lock' = 0
  /\ req' = [req EXCEPT ![p].pc = "idle", ![p].resp = "ok", ![p].view = EmptyMap,
                        ![p].fx = Append(@, "store")]
  /\ UNCHANGED <<files, clock, runs, nextId, issued, cache, abortMemory>>

----------------------------------------------------------------------------
(* /restore: the text command *)

(* timestamp.replace(/-/g, (m, i) => (i > 9 ? ":" : m)) *)
DeletedAt(ts) == [i \in 1..Len(ts) |-> IF ts[i] = "-" /\ i > 10 THEN ":" ELSE ts[i]]

(* The collation rank of a character a timestamp can hold: punctuation sorts
   before digits, digits before letters. *)
CharRank(c) ==
  CASE c = "-" -> 1 [] c = ":" -> 2 [] c = "." -> 3
    [] c = "0" -> 10 [] c = "1" -> 11 [] c = "2" -> 12 [] c = "3" -> 13
    [] c = "4" -> 14 [] c = "5" -> 15 [] c = "6" -> 16 [] c = "7" -> 17
    [] c = "8" -> 18 [] c = "9" -> 19 [] c = "T" -> 30 [] c = "Z" -> 31

(* a.localeCompare(b) < 0 *)
LexLess(a, b) ==
  \E k \in 1..(Len(a) + 1) :
    /\ \A i \in 1..(k - 1) : i <= Len(b) /\ a[i] = b[i]
    /\ k <= Len(b)
    /\ (k <= Len(a) => CharRank(a[k]) < CharRank(b[k]))

(* The record of one directory entry, Undef when its name does not match. *)
ArchivedRecord(fs, name, match) ==
  IF IsDef(match)
  THEN Some([file |-> name, sessionId |-> Val(match).sessionId,
             deletedAt |-> DeletedAt(Val(match).timestamp),
             reason |-> Val(match).reason, sizeBytes |-> Len(fs[name])])
  ELSE Undef

(* The results archived.sort((a, b) => b.deletedAt.localeCompare(a.deletedAt)) can
   give: the records newest first, records of equal time in any directory order. *)
SortedOldestFirst(records) ==
  LET n == Cardinality(records)
  IN  {l \in [1..n -> records] :
         /\ \A i, j \in 1..n : i /= j => l[i] /= l[j]
         /\ \A i, j \in 1..n : i < j => ~LexLess(l[j].deletedAt, l[i].deletedAt)}

SortedNewestFirst(records) ==
  LET n == Cardinality(records)
  IN  {l \in [1..n -> records] :
         /\ \A i, j \in 1..n : i /= j => l[i] /= l[j]
         /\ \A i, j \in 1..n : i < j => ~LexLess(l[i].deletedAt, l[j].deletedAt)}

(* listArchivedSessions(storePath, agentId): readdirSync throws when dirFails,
   statSync throws for the names in unreadable; both are caught. *)
ListArchivedSessions(fs, dirFails, unreadable) ==
  IF dirFails THEN {<<>>}
  ELSE SortedNewestFirst({Val(ArchivedRecord(fs, name, MatchRestore(name))) :
                            name \in {x \in DOMAIN fs \ unreadable :
                                        IsDef(MatchRestore(x))}})

ListLimit == 15

(* /restore, /restore list: show the archived sessions and cache the list. *)
CmdRestoreList(p, sessionKey, dirFails, unreadable) ==
  /\ req[p].pc = "idle"
  /\ issued' = issued + 1
  /\ \E all \in ListArchivedSessions(files, dirFails, unreadable) :
       LET archived == SubSeq(all, 1, IF Len(all) < ListLimit THEN Len(all)
                                      ELSE ListLimit)
           r == [IdleReq EXCEPT !.op = "cmd.list", !.key = sessionKey,
                                !.dirFails = dirFails, !.unreadable = unreadable]
       IN  IF Len(archived) = 0
           THEN /\ cache' = cache
                /\ req' = [req EXCEPT ![p] = [r EXCEPT !.resp = "none"]]
           ELSE /\ cache' = Put(cache, sessionKey, archived)
                /\ req' = [req EXCEPT ![p] = [r EXCEPT !.resp = "listed"]]
  /\ UNCHANGED <<store, lock, files, clock, runs, nextId, abortMemory>>

(* if (fs.existsSync(restoredPath)) fs.renameSync(restoredPath,
   `${restoredPath}.replaced.${ts}`) *)
RenameOccupant(fs, restoredPath, now) ==
  IF Has(fs, restoredPath)
  THEN LET archived == ArchivedName(restoredPath, ReasonReplaced, now)
       IN  [fs |-> Rename(fs, restoredPath, archived), archived |-> <<archived>>]
  ELSE [fs |-> fs, archived |-> <<>>]

(* /restore <index>: restoreArchivedSession on the cached record, up to the
   handler's guarded update. renameFails is as in sessions.restore. *)
CmdRestoreIndex(p, sessionKey, index, renameFails) ==
  /\ req[p].pc = "idle"
  /\ issued' = issued + 1
  /\ LET r == [IdleReq EXCEPT !.op = "cmd.restore", !.key = sessionKey,
                                !.failed = renameFails]
         known == Has(cache, sessionKey) /\ index <= Len(cache[sessionKey])
         session == cache[sessionKey][index]
         filePath == session.file
         restoredPath == RestoredPath(filePath)
         occupied == Has(files, restoredPath)
         a == RenameOccupant(files, restoredPath, clock)
         r0 == [r EXCEPT !.file = filePath]
         r1 == [r0 EXCEPT !.archived = a.archived,
                          !.fx = [i \in 1..Len(a.archived) |-> "archive"]]
     IN  CASE ~known ->
                /\ req' = [req EXCEPT ![p] = [r EXCEPT !.resp = "run /restore first"]]
                /\ files' = files
           [] known /\ ~Has(files, filePath) ->
                /\ req' = [req EXCEPT ![p] = [r0 EXCEPT !.resp = "NOT_FOUND"]]
                /\ files' = files
           [] known /\ Has(files, filePath) /\ occupied /\ 1 \in renameFails ->
                /\ req' = [req EXCEPT ![p] = [r0 EXCEPT !.resp = "INTERNAL_ERROR"]]
                /\ files' = files
           [] known /\ Has(files, filePath) /\ ~(occupied /\ 1 \in renameFails)
                /\ (2 \in renameFails \/ ~Has(a.fs, filePath)) ->
                /\ req' = [req EXCEPT ![p] = [r1 EXCEPT !.resp = "INTERNAL_ERROR"]]
                /\ files' = MoveFailed(files, a.fs)
           [] OTHER ->
                /\ req' = [req EXCEPT ![p] =
                     [r1 EXCEPT !.sessionId = Some(session.sessionId),
                                !.filePath = restoredPath,
                                !.fx = Append(@, "rename"),
                                !.pc = "cmdrestore.lock"]]
                /\ files' = Rename(a.fs, filePath, restoredPath)
  /\ UNCHANGED <<store, lock, clock, runs, nextId, cache, abortMemory>>

(* store[params.sessionKey] = { ...store[params.sessionKey], sessionId, sessionFile,
   updatedAt } *)
CmdRestoreEnter(p) ==
  /\ req[p].pc = "cmdrestore.lock"
  /\ CanAcquire(p)
  /\ lock' = p
  /\ req' = [req EXCEPT ![p].pc = "cmdrestore.commit",
                        ![p].view = PointEntryAt(store, req[p].key,
                                                 Val(req[p].sessionId), req[p].filePath,
                                                 clock)]
  /\ UNCHANGED <<store, files, clock, runs, nextId, issued, cache, abortMemory>>

CmdRestoreCommit(p) ==
  /\ req[p].pc = "cmdrestore.commit"
  /\ store' = req[p].view
  /\ lock' = 0
  /\ req' = [req EXCEPT ![p].pc = "idle", ![p].resp = "ok", ![p].view = EmptyMap,
                        ![p].fx = Append(@, "store")]
  /\ UNCHANGED <<files, clock, runs, nextId, issued, cache, abortMemory>>

----------------------------------------------------------------------------
(* sessions.archived *)

DefaultLimit == 20

(* archived.slice(0, limit) *)
SliceTo(l, limit) == SubSeq(l, 1, IF Len(l) < limit THEN Len(l) ELSE limit)

(* The directory scan, the sort and the truncation to p.limit ?? 20. readdirSync
   throws when dirFails, which the handler's outer catch answers; statSync throws
   for the names in unreadable, which the loop's catch skips. *)
ArchivedRequest(p, limitOpt, dirFails, unreadable) ==
  /\ req[p].pc = "idle"
  /\ issued' = issued + 1
  /\ LET limit == IF IsDef(limitOpt) THEN Val(limitOpt) ELSE DefaultLimit
         names == {x \in DOMAIN files \ unreadable : IsDef(MatchArchivedListing(x))}
         records == {Val(ArchivedRecord(files, name, MatchArchivedListing(name))) :
                       name \in names}
         r == [IdleReq EXCEPT !.op = "archived", !.kept = limit,
                              !.dirFails = dirFails, !.unreadable = unreadable]
     IN  IF dirFails
         THEN req' = [req EXCEPT ![p] = [r EXCEPT !.resp = "INTERNAL_ERROR"]]
         ELSE \E archived \in SortedNewestFirst(records) :
                req' = [req EXCEPT ![p] = [r EXCEPT !.listed = SliceTo(archived, limit),
                                                   !.resp = "ok"]]
  /\ UNCHANGED <<store, lock, files, clock, runs, nextId, cache, abortMemory>>

----------------------------------------------------------------------------
(* Parameter validation, sessions.list and sessions.resolve *)

RpcOps == {"list", "resolve", "patch", "reset", "delete", "compact", "archived",
           "restore"}

(* if (!validateSessions<Op>Params(params)) { respond(false, undefined,
   errorShape(ErrorCodes.INVALID_REQUEST, ...)); return; }: the first statement
   of every handler. *)
RejectInvalidLate(p, op) ==
  /\ req[p].pc = "idle"
  /\ issued' = issued + 1
  /\ req' = [req EXCEPT ![p] = [IdleReq EXCEPT !.op = op, !.valid = FALSE,
                                               !.resp = "INVALID_REQUEST",
                                               !.fx = <<"clearQueues">>]]
  /\ UNCHANGED <<store, lock, files, clock, runs, nextId, cache, abortMemory>>

RejectInvalid(p, op) ==
  /\ req[p].pc = "idle"
  /\ issued' = issued + 1
  /\ req' = [req EXCEPT ![p] = [IdleReq EXCEPT !.op = op, !.valid = FALSE,
                                               !.resp = "INVALID_REQUEST"]]
  /\ UNCHANGED <<store, lock, files, clock, runs, nextId, cache, abortMemory>>

(* sessions.list: the sessions of the store, read without the lock. *)
ListRequest(p) ==
  /\ req[p].pc = "idle"
  /\ issued' = issued + 1
  /\ req' = [req EXCEPT ![p] = [IdleReq EXCEPT !.op = "list", !.view = store,
                                               !.resp = "ok"]]
  /\ UNCHANGED <<store, lock, files, clock, runs, nextId, cache, abortMemory>>

(* sessions.resolve: resolved.ok decides between the key and resolved.error. *)
ResolveRequest(p, key, ok) ==
  /\ req[p].pc = "idle"
  /\ issued' = issued + 1
  /\ req' = [req EXCEPT ![p] = [IdleReq EXCEPT !.op = "resolve", !.key = key,
                                               !.resp = IF ok THEN "ok" ELSE "error"]]
  /\ UNCHANGED <<store, lock, files, clock, runs, nextId, cache, abortMemory>>

----------------------------------------------------------------------------
(* /stop and the abort trigger: handleStopCommand, handleAbortTrigger *)

(* resolveSessionEntryForKey: the entry stored under exactly this key. *)
ResolveSessionEntryForKey(sessionStore, sessionKey) ==
  IF Has(sessionStore, sessionKey)
  THEN [entry |-> Some(sessionStore[sessionKey]), key |-> Some(sessionKey)]
  ELSE [entry |-> Undef, key |-> Undef]

(* resolveAbortTarget: the entry under ctx.CommandTargetSessionKey (the
   override) or, without one, under the ambient key; failing that the ambient
   entry and key; failing that no entry and the key looked up. *)
ResolveAbortTarget(sessionStore, override, sessionKey, sessionEntry) ==
  LET targetSessionKey == IF IsDef(override) THEN Val(override) ELSE sessionKey
      direct == ResolveSessionEntryForKey(sessionStore, targetSessionKey)
  IN  IF IsDef(direct.entry) /\ IsDef(direct.key)
      THEN [entry |-> direct.entry, key |-> direct.key,
            sessionId |-> SessionIdOf(direct.entry)]
      ELSE IF IsDef(sessionEntry)
           THEN [entry |-> sessionEntry, key |-> Some(sessionKey),
                 sessionId |-> SessionIdOf(sessionEntry)]
           ELSE [entry |-> Undef, key |-> Some(targetSessionKey),
                 sessionId |-> Undef]

(* abortTarget.entry.abortedLastRun = true; abortTarget.entry.updatedAt = Date.now() *)
MarkAborted(entry, now) ==
  [entry EXCEPT !["abortedLastRun"] = Some(TRUE), !["updatedAt"] = Some(now)]

(* What follows the record step: /stop builds the hook event and awaits
   triggerInternalHook; the abort trigger returns its reply. *)
AfterRecord(r) ==
  IF r.op = "stop"
  THEN [Fx(r, "notify") EXCEPT !.pc = "stop.hook"]
  ELSE [r EXCEPT !.pc = "idle", !.resp = "ok"]

(* The handler up to its first await. kind is "stop" (/stop) or "abort" (an
   abort trigger); sessionKey is the ambient key, and the handler's store
   snapshot and ambient entry are the store as loaded for the message. *)
StopRequest(p, kind, sessionKey, override, storePath, abortKey, authorized) ==
  /\ req[p].pc = "idle"
  /\ issued' = issued + 1
  /\ LET r == [IdleReq EXCEPT !.op = kind, !.key = sessionKey, !.keyOpt = override,
                              !.storePath = storePath, !.abortKey = abortKey,
                              !.authorized = authorized]
         sessionEntry == IF Has(store, sessionKey) THEN Some(store[sessionKey])
                         ELSE Undef
         abortTarget == ResolveAbortTarget(store, override, sessionKey, sessionEntry)
         aborted == IF IsDef(abortTarget.sessionId) THEN <<"abort">> ELSE <<>>
         cleared == IF kind = "stop" THEN <<"clearQueues">> ELSE <<>>
         t == [r EXCEPT !.targetKey = abortTarget.key,
                        !.sessionId = abortTarget.sessionId,
                        !.queueKeys =
                           IF kind = "stop"
                           THEN [keys |-> {Val(abortTarget.key)},
                                 ids |-> IF IsDef(abortTarget.sessionId)
                                         THEN {Val(abortTarget.sessionId)} ELSE {}]
                           ELSE @,
                        !.fx = aborted \o cleared]
     IN  IF kind = "stop" /\ ~authorized
         THEN /\ req' = [req EXCEPT ![p] = [r EXCEPT !.resp = "ignored"]]
              /\ abortMemory' = abortMemory
         ELSE IF IsDef(abortTarget.entry)
         THEN LET m == [t EXCEPT !.entry =
                                   Some(MarkAborted(Val(abortTarget.entry), clock))]
              IN  /\ req' = [req EXCEPT ![p] =
                               IF storePath THEN [m EXCEPT !.pc = "stop.lock"]
                               ELSE AfterRecord(m)]
                  /\ abortMemory' = abortMemory
         ELSE IF IsDef(abortKey)
         THEN /\ req' = [req EXCEPT ![p] = AfterRecord(Fx(t, "setAbortMemory"))]
              /\ abortMemory' = abortMemory \cup {Val(abortKey)}
         ELSE /\ req' = [req EXCEPT ![p] = AfterRecord(t)]
              /\ abortMemory' = abortMemory
  /\ UNCHANGED <<store, lock, files, clock, runs, nextId, cache>>

(* updateSessionStore(storePath, (store) => { store[abortTarget.key] = abortTarget.entry }) *)
StopEnter(p) ==
  /\ req[p].pc = "stop.lock"
  /\ CanAcquire(p)
  /\ lock' = p
  /\ req' = [req EXCEPT ![p].pc = "stop.commit",
                        ![p].view = Put(store, Val(req[p].targetKey),
                                        Val(req[p].entry))]
  /\ UNCHANGED <<store, files, clock, runs, nextId, issued, cache, abortMemory>>

StopCommit(p) ==
  /\ req[p].pc = "stop.commit"
  /\ store' = req[p].view
  /\ lock' = 0
  /\ req' = [req EXCEPT ![p] =
               AfterRecord([Fx(req[p], "store") EXCEPT !.view = EmptyMap])]
  /\ UNCHANGED <<files, clock, runs, nextId, issued, cache, abortMemory>>

(* After the hook: stopSubagentsForRequester and the reply. *)
StopFinish(p) ==
  /\ req[p].pc = "stop.hook"
  /\ req' = [req EXCEPT ![p] =
               [Fx(req[p], "stopSubagents") EXCEPT !.pc = "idle", !.resp = "ok"]]
  /\ UNCHANGED <<store, lock, files, clock, runs, nextId, issued, cache, abortMemory>>

----------------------------------------------------------------------------
(* /activation, /send, /restart and the authorization of /restore *)

(* params.sessionEntry.groupActivation = mode; ...NeedsSystemIntro = true;
   params.sessionEntry.updatedAt = Date.now() *)
SetActivation(entry, mode, now) ==
  [entry EXCEPT !["groupActivation"] = Some(mode),
                !["groupActivationNeedsSystemIntro"] = Some(TRUE),
                !["updatedAt"] = Some(now)]

(* mode === "inherit" ? delete sendPolicy : sendPolicy = mode; updatedAt = Date.now() *)
SetSendPolicy(entry, mode, now) ==
  [entry EXCEPT !["sendPolicy"] = IF mode = "inherit" THEN Undef ELSE Some(mode),
                !["updatedAt"] = Some(now)]

(* The tail both setters share: the entry goes to the handler's store object and,
   with a store path, to the guarded update. *)
SetterRecords(p, r, sessionKey, storePath, changed) ==
  req' = [req EXCEPT ![p] =
            IF Has(store, sessionKey)
            THEN IF storePath
                 THEN [r EXCEPT !.entry = Some(changed), !.pc = "set.lock"]
                 ELSE [r EXCEPT !.entry = Some(changed), !.resp = "ok"]
            ELSE [r EXCEPT !.resp = "ok"]]

(* handleActivationCommand up to its first await. modeOpt is the parsed mode. *)
ActivationCommand(p, sessionKey, isGroup, modeOpt, storePath, authorized) ==
  /\ req[p].pc = "idle"
  /\ issued' = issued + 1
  /\ LET r == [IdleReq EXCEPT !.op = "activation", !.key = sessionKey,
                              !.storePath = storePath, !.authorized = authorized]
     IN  IF ~isGroup
         THEN req' = [req EXCEPT ![p] = [r EXCEPT !.resp = "group chats only"]]
         ELSE IF ~authorized
         THEN req' = [req EXCEPT ![p] = [r EXCEPT !.resp = "ignored"]]
         ELSE IF ~IsDef(modeOpt)
         THEN req' = [req EXCEPT ![p] = [r EXCEPT !.resp = "usage"]]
         ELSE SetterRecords(p, r, sessionKey, storePath,
                SetActivation(store[sessionKey], Val(modeOpt), clock))
  /\ UNCHANGED <<store, lock, files, clock, runs, nextId, cache, abortMemory>>

(* handleSendPolicyCommand up to its first await. *)
SendPolicyCommand(p, sessionKey, modeOpt, storePath, authorized) ==
  /\ req[p].pc = "idle"
  /\ issued' = issued + 1
  /\ LET r == [IdleReq EXCEPT !.op = "send", !.key = sessionKey,
                              !.storePath = storePath, !.authorized = authorized]
     IN  IF ~authorized
         THEN req' = [req EXCEPT ![p] = [r EXCEPT !.resp = "ignored"]]
         ELSE IF ~IsDef(modeOpt)
         THEN req' = [req EXCEPT ![p] = [r EXCEPT !.resp = "usage"]]
         ELSE SetterRecords(p, r, sessionKey, storePath,
                SetSendPolicy(store[sessionKey], Val(modeOpt), clock))
  /\ UNCHANGED <<store, lock, files, clock, runs, nextId, cache, abortMemory>>

(* updateSessionStore(storePath, (store) => { store[params.sessionKey] =
   params.sessionEntry }) *)
SetterEnter(p) ==
  /\ req[p].pc = "set.lock"
  /\ CanAcquire(p)
  /\ lock' = p
  /\ req' = [req EXCEPT ![p].pc = "set.commit",
                        ![p].view = Put(store, req[p].key, Val(req[p].entry))]
  /\ UNCHANGED <<store, files, clock, runs, nextId, issued, cache, abortMemory>>

SetterCommit(p) ==
  /\ req[p].pc = "set.commit"
  /\ store' = req[p].view
  /\ lock' = 0
  /\ req' = [req EXCEPT ![p] =
               [Fx(req[p], "store") EXCEPT !.pc = "idle", !.resp = "ok",
                                           !.view = EmptyMap]]
  /\ UNCHANGED <<files, clock, runs, nextId, issued, cache, abortMemory>>

(* handleRestartCommand: enabled is cfg.commands.restart === true, hasListener is
   process.listenerCount("SIGUSR1") > 0, restartOk the outcome of the restart. *)
RestartCommand(p, enabled, hasListener, restartOk, authorized) ==
  /\ req[p].pc = "idle"
  /\ issued' = issued + 1
  /\ LET r == [IdleReq EXCEPT !.op = "restart", !.authorized = authorized]
     IN  req' = [req EXCEPT ![p] =
                   IF ~authorized THEN [r EXCEPT !.resp = "ignored"]
                   ELSE IF ~enabled THEN [r EXCEPT !.resp = "disabled"]
                   ELSE IF hasListener
                        THEN [Fx(r, "scheduleRestart") EXCEPT !.resp = "ok"]
                        ELSE [Fx(r, "triggerRestart") EXCEPT
                                !.resp = IF restartOk THEN "ok" ELSE "restart failed"]]
  /\ UNCHANGED <<store, lock, files, clock, runs, nextId, cache, abortMemory>>

(* handleRestoreCommand: the sender's authorization comes before the listing and
   the restore. index 0 stands for /restore and /restore list. *)
RestoreCommand(p, sessionKey, index, authorized) ==
  IF ~authorized
  THEN /\ req[p].pc = "idle"
       /\ issued' = issued + 1
       /\ req' = [req EXCEPT ![p] =
                    [IdleReq EXCEPT !.op = "cmd.restore", !.key = sessionKey,
                                    !.authorized = FALSE, !.resp = "ignored"]]
       /\ UNCHANGED <<store, lock, files, clock, runs, nextId, cache, abortMemory>>
  ELSE IF index = 0
       THEN CmdRestoreList(p, sessionKey, FALSE, {})
       ELSE CmdRestoreIndex(p, sessionKey, index, {})

----------------------------------------------------------------------------
(* The environment: embedded runs and time *)

(* A run starts for the session of a persisted entry. *)
RunStart(k) ==
  /\ Has(store, k)
  /\ IsDef(store[k]["sessionId"])
  /\ Val(store[k]["sessionId"]) \notin runs
  /\ runs' = runs \cup {Val(store[k]["sessionId"])}
  /\ UNCHANGED <<store, lock, files, clock, nextId, issued, req, cache, abortMemory>>

RunEnd(sid) ==
  /\ sid \in runs
  /\ runs' = runs \ {sid}
  /\ UNCHANGED <<store, lock, files, clock, nextId, issued, req, cache, abortMemory>>

Tick ==
  /\ clock < MaxClock
  /\ clock' = clock + 1
  /\ UNCHANGED <<store, lock, files, runs, nextId, issued, req, cache, abortMemory>>

----------------------------------------------------------------------------
(* Stores and directories the program can be in *)

InitCounter == 1

Sid(n) == <<"s", Digit(n)>>

(* An entry with every field set, as a session that has run would have. *)
FullEntry(sid) ==
  [f \in Fields |->
     CASE f = "sessionId" -> Some(sid)
       [] f = "updatedAt" -> Some(0)
       [] f \in {"systemSent", "abortedLastRun", "groupActivationNeedsSystemIntro"}
            -> Some(TRUE)
       [] f \in {"thinkingLevel", "verboseLevel", "reasoningLevel", "contextTokens"}
            \cup TokenCounters -> Some(7)
       [] f = "counter" -> Some(InitCounter)
       [] f = "sessionFile" -> Some(sid \o DotJsonl)
       [] OTHER -> Some("v:" \o f)]

(* An entry as a first message leaves it: an id and a time, nothing else. *)
BareEntry(sid) == Obj([sessionId |-> Some(sid), updatedAt |-> Some(0)])

(* One entry for the group session, under exactly one of its keys. *)
OneEntryStores ==
  {Put(EmptyMap, GroupKeys[i], FullEntry(Sid(1))) : i \in 1..Len(GroupKeys)}

(* The same, with or without an entry of the main session. *)
WithMain(stores) ==
  stores \cup {Put(st, MainKey, FullEntry(Sid(2))) : st \in stores}

(* The transcripts directory: the active transcript of session s1 and archived
   transcripts named as in the listing example (2026-01-01T00-00-00Z,
   2026-01-02T00-00-00Z). *)
ActiveS1 == Sid(1) \o DotJsonl

ExampleTs(day) == <<"2", "0", "2", "6", "-", "0", "1", "-", "0", Digit(day), "T",
                    "0", "0", "-", "0", "0", "-", "0", "0", "Z">>

ArchivedS1 == ActiveS1 \o <<".">> \o ReasonDeleted \o <<".">> \o ExampleTs(1)

ArchivedS3 == Sid(3) \o DotJsonl \o <<".">> \o ReasonBak \o <<".">> \o ExampleTs(2)

InitFiles == Put(Put(EmptyMap, ActiveS1, <<1, 0, 2, 3>>), ArchivedS1, <<8, 9>>)

(* An archived name of s1 that no file of the directory has. *)
MissingS1 == ActiveS1 \o <<".">> \o ReasonDeleted \o <<".">> \o ExampleTs(3)

InitFilesSeq ==
  {Put(InitFiles, ArchivedS3, <<5>>), Put(Del(InitFiles, ActiveS1), ArchivedS3, <<5>>)}

MaxLinesInputs ==
  {NoMaxLines, [kind |-> "number", tenths |-> 25], [kind |-> "number", tenths |-> -5],
   [kind |-> "NaN", tenths |-> 0]}

InitRest ==
  /\ lock = 0
  /\ clock = 0
  /\ runs = {}
  /\ nextId = 1
  /\ issued = 0
  /\ cache = EmptyMap
  /\ abortMemory = {}
  /\ req = [p \in Procs |-> IdleReq]

GroupAliases == {GroupKeys[i] : i \in 1..Len(GroupKeys)}

----------------------------------------------------------------------------
(* Spec: the RPC handlers of two requests interleaved at their suspension points,
   with embedded runs starting and ending *)

Slots == {1, 2}

SpecKeys == {GroupKeys[1], GroupKeys[2]}

Init ==
  /\ store \in WithMain(OneEntryStores \cup {EmptyMap})
  /\ files = InitFiles
  /\ InitRest

Next ==
  \/ \E p \in Slots :
       /\ issued < MaxOps
       /\ \/ \E key \in SpecKeys : PatchRequest(p, key, [kind |-> "label", v |-> "L2"])
          \/ \E key \in SpecKeys : ResetRequest(p, key)
          \/ \E key \in SpecKeys \cup {"main", MainKey} : DeleteRequest(p, key, TRUE)
          \/ \E key \in SpecKeys :
               CompactRequest(p, key, [kind |-> "number", tenths |-> 25])
          \/ \E file \in DOMAIN files, keyOpt \in {Undef, Some(GroupKeys[2])} :
               RestoreRequest(p, file, keyOpt, {})
  \/ \E p \in Slots :
       \/ PatchEnter(p)
       \/ PatchCommit(p)
       \/ ResetEnter(p)
       \/ ResetCommit(p)
       \/ DeleteWaitEnded(p)
       \/ DeleteWaitTimeout(p)
       \/ DeleteEnter(p)
       \/ DeleteCommit(p)
       \/ DeleteArchive(p, {})
       \/ CompactEnter1(p)
       \/ CompactCommit1(p)
       \/ CompactIO(p)
       \/ CompactEnter2(p)
       \/ CompactCommit2(p)
       \/ RestoreEnter(p)
       \/ RestoreCommit(p)
  \/ \E k \in DOMAIN store : RunStart(k)
  \/ \E sid \in runs : RunEnd(sid)

Spec == Init /\ [][Next]_vars

----------------------------------------------------------------------------
(* SpecSeq: one request at a time, over the directory and the clock *)

InitSeq ==
  /\ store \in OneEntryStores \cup {EmptyMap}
  /\ files \in InitFilesSeq
  /\ InitRest

NextSeq ==
  \/ /\ issued < MaxSeqOps
     /\ \/ \E key \in SpecKeys, m \in MaxLinesInputs : CompactRequest(1, key, m)
        \/ \E file \in DOMAIN files \cup {MissingS1},
              keyOpt \in {Undef, Some(GroupKeys[2])} :
             RestoreRequest(1, file, keyOpt, {})
        \/ \E key \in SpecKeys, dt \in BOOLEAN : DeleteRequest(1, key, dt)
        \/ CmdRestoreList(1, GroupKeys[1], FALSE, {})
        \/ \E index \in 1..2 : CmdRestoreIndex(1, GroupKeys[1], index, {})
  \/ CompactEnter1(1)
  \/ CompactCommit1(1)
  \/ CompactIO(1)
  \/ CompactEnter2(1)
  \/ CompactCommit2(1)
  \/ RestoreEnter(1)
  \/ RestoreCommit(1)
  \/ DeleteWaitEnded(1)
  \/ DeleteEnter(1)
  \/ DeleteCommit(1)
  \/ DeleteArchive(1, {})
  \/ CmdRestoreEnter(1)
  \/ CmdRestoreCommit(1)
  \/ Tick

SpecSeq == InitSeq /\ [][NextSeq]_vars

----------------------------------------------------------------------------
(* SpecUpdate: concurrent guarded updates that each increment the counter *)

InitUpdate ==
  /\ store \in OneEntryStores
  /\ files = EmptyMap
  /\ InitRest

NextUpdate ==
  \E p \in Procs :
    \/ /\ issued < MaxUpdates
       /\ \E key \in GroupAliases : PatchRequest(p, key, [kind |-> "inc", v |-> ""])
    \/ PatchEnter(p)
    \/ PatchCommit(p)

SpecUpdate == InitUpdate /\ [][NextUpdate]_vars

Quiescent == \A p \in Procs : req[p].pc = "idle"

----------------------------------------------------------------------------
(* SpecValidate: requests whose params fail the schema, among deletes in flight *)

MaxValidateOps == 2

NextValidate ==
  \/ \E p \in Slots :
       /\ issued < MaxValidateOps
       /\ \/ \E op \in RpcOps : RejectInvalid(p, op)
          \/ ListRequest(p)
          \/ \E key \in SpecKeys, ok \in BOOLEAN : ResolveRequest(p, key, ok)
          \/ \E key \in SpecKeys : DeleteRequest(p, key, TRUE)
  \/ \E p \in Slots :
       \/ DeleteWaitEnded(p)
       \/ DeleteWaitTimeout(p)
       \/ DeleteEnter(p)
       \/ DeleteCommit(p)
       \/ DeleteArchive(p, {})
  \/ \E k \in DOMAIN store : RunStart(k)
  \/ \E sid \in runs : RunEnd(sid)

SpecValidate == Init /\ [][NextValidate]_vars

----------------------------------------------------------------------------
(* SpecList: the two listings of a directory that compact and delete add to *)

MaxListOps == 3

LimitInputs == {Undef, Some(1), Some(2)}

NextList ==
  \/ /\ issued < MaxListOps
     /\ \/ \E limitOpt \in LimitInputs : ArchivedRequest(1, limitOpt, FALSE, {})
        \/ CmdRestoreList(1, GroupKeys[1], FALSE, {})
        \/ CompactRequest(1, GroupKeys[1], [kind |-> "number", tenths |-> 25])
        \/ DeleteRequest(1, GroupKeys[1], TRUE)
  \/ CompactEnter1(1)
  \/ CompactCommit1(1)
  \/ CompactIO(1)
  \/ CompactEnter2(1)
  \/ CompactCommit2(1)
  \/ DeleteWaitEnded(1)
  \/ DeleteEnter(1)
  \/ DeleteCommit(1)
  \/ DeleteArchive(1, {})
  \/ Tick

SpecList == InitSeq /\ [][NextList]_vars

----------------------------------------------------------------------------
(* SpecStop: /stop and abort triggers of two chats, with runs starting and
   ending *)

MaxStopOps == 2

(* Stores of sessions as first messages leave them: the group session and the
   main session, each present or not. *)
BareStore(st) == [k \in DOMAIN st |-> BareEntry(Val(st[k]["sessionId"]))]

StopStores ==
  {BareStore(st) :
     st \in WithMain({EmptyMap, Put(EmptyMap, GroupKeys[1], FullEntry(Sid(1)))})}

InitStop ==
  /\ store \in StopStores
  /\ files = InitFiles
  /\ InitRest

AmbientKeys == {MainKey, GroupKeys[1]}

NextStop ==
  \/ \E p \in Slots :
       /\ issued < MaxStopOps
       /\ \E sessionKey \in AmbientKeys, override \in {Undef, Some(GroupKeys[1])},
             storePath \in BOOLEAN, hasAbortKey \in BOOLEAN :
          LET abortKey == IF hasAbortKey THEN Some(sessionKey) ELSE Undef
          IN
            \/ \E authorized \in BOOLEAN :
                 StopRequest(p, "stop", sessionKey, override, storePath, abortKey,
                             authorized)
            \/ StopRequest(p, "abort", sessionKey, override, storePath, abortKey,
                           TRUE)
  \/ \E p \in Slots :
       \/ StopEnter(p)
       \/ StopCommit(p)
       \/ StopFinish(p)
  \/ \E k \in DOMAIN store : RunStart(k)
  \/ \E sid \in runs : RunEnd(sid)

SpecStop == InitStop /\ [][NextStop]_vars

----------------------------------------------------------------------------
(* SpecStale: /stop or an abort trigger of the group session in slot 1, with a
   patch, reset, compact or restore of the same key in slot 2 *)

MaxStaleOps == 2

InitStale ==
  /\ store = Put(EmptyMap, GroupKeys[1], FullEntry(Sid(1)))
  /\ files = InitFiles
  /\ InitRest

NextStale ==
  \/ /\ issued < MaxStaleOps
     /\ \/ \E kind \in {"stop", "abort"}, hasAbortKey \in BOOLEAN :
             StopRequest(1, kind, GroupKeys[1], Undef, TRUE,
                         IF hasAbortKey THEN Some(GroupKeys[1]) ELSE Undef, TRUE)
        \/ PatchRequest(2, GroupKeys[1], [kind |-> "label", v |-> "L2"])
        \/ ResetRequest(2, GroupKeys[1])
        \/ CompactRequest(2, GroupKeys[1], [kind |-> "number", tenths |-> 25])
        \/ RestoreRequest(2, ArchivedS1, Some(GroupKeys[1]), {})
  \/ StopEnter(1)
  \/ StopCommit(1)
  \/ StopFinish(1)
  \/ PatchEnter(2)
  \/ PatchCommit(2)
  \/ ResetEnter(2)
  \/ ResetCommit(2)
  \/ CompactEnter1(2)
  \/ CompactCommit1(2)
  \/ CompactIO(2)
  \/ CompactEnter2(2)
  \/ CompactCommit2(2)
  \/ RestoreEnter(2)
  \/ RestoreCommit(2)
  \/ Tick

SpecStale == InitStale /\ [][NextStale]_vars

----------------------------------------------------------------------------
(* SpecFinalize: a compact of the group session in slot 1, with a delete, a reset
   or a restore of another session's transcript onto the same key in slot 2 *)

MaxFinalizeOps == 2

InitFinalize ==
  /\ store = Put(EmptyMap, GroupKeys[1], FullEntry(Sid(1)))
  /\ files = Put(InitFiles, ArchivedS3, <<5>>)
  /\ InitRest

NextFinalize ==
  \/ /\ issued < MaxFinalizeOps
     /\ \/ CompactRequest(1, GroupKeys[1], [kind |-> "number", tenths |-> 25])
        \/ DeleteRequest(2, GroupKeys[1], FALSE)
        \/ ResetRequest(2, GroupKeys[1])
        \/ RestoreRequest(2, ArchivedS3, Some(GroupKeys[1]), {})
  \/ CompactEnter1(1)
  \/ CompactCommit1(1)
  \/ CompactIO(1)
  \/ CompactEnter2(1)
  \/ CompactCommit2(1)
  \/ DeleteWaitEnded(2)
  \/ DeleteEnter(2)
  \/ DeleteCommit(2)
  \/ DeleteArchive(2, {})
  \/ ResetEnter(2)
  \/ ResetCommit(2)
  \/ RestoreEnter(2)
  \/ RestoreCommit(2)
  \/ Tick

SpecFinalize == InitFinalize /\ [][NextFinalize]_vars

----------------------------------------------------------------------------
(* SpecDelete: sessions.delete over transcripts whose archival can throw *)

MaxDeleteOps == 2

(* A transcript path of session s1 other than <sessionId>.jsonl. *)
TopicS1 == <<"t", "1">> \o DotJsonl

(* The entry of s1 with its transcript at the topic path. *)
TopicEntry == [FullEntry(Sid(1)) EXCEPT !["sessionFile"] = Some(TopicS1)]

DeleteStores ==
  WithMain(OneEntryStores
             \cup {Put(EmptyMap, GroupKeys[i], TopicEntry) : i \in 1..Len(GroupKeys)})

DeleteFiles ==
  {InitFiles, Put(InitFiles, TopicS1, <<4, 5>>),
   Put(Del(InitFiles, ActiveS1), TopicS1, <<4, 5>>)}

InitDelete ==
  /\ store \in DeleteStores
  /\ files \in DeleteFiles
  /\ InitRest

NextDelete ==
  \/ \E p \in Slots :
       /\ issued < MaxDeleteOps
       /\ \E key \in SpecKeys, deleteTranscript \in BOOLEAN :
            DeleteRequest(p, key, deleteTranscript)
  \/ \E p \in Slots :
       \/ DeleteWaitEnded(p)
       \/ DeleteWaitTimeout(p)
       \/ DeleteEnter(p)
       \/ DeleteCommit(p)
       \/ \E failing \in SUBSET {1, 2} : DeleteArchive(p, failing)
  \/ \E k \in DOMAIN store : RunStart(k)
  \/ \E sid \in runs : RunEnd(sid)
  \/ Tick

SpecDelete == InitDelete /\ [][NextDelete]_vars

----------------------------------------------------------------------------
(* SpecCompact: compacts, one at a time, under budgets below, at and above the
   transcript's length *)

MaxCompactOps == 2

BudgetInputs ==
  MaxLinesInputs \cup {[kind |-> "number", tenths |-> 35],
                      [kind |-> "number", tenths |-> 40],
                      [kind |-> "Infinity", tenths |-> 0]}

NextCompact ==
  \/ /\ issued < MaxCompactOps
     /\ \E key \in SpecKeys, m \in BudgetInputs : CompactRequest(1, key, m)
  \/ CompactEnter1(1)
  \/ CompactCommit1(1)
  \/ CompactIO(1)
  \/ CompactEnter2(1)
  \/ CompactCommit2(1)
  \/ Tick

SpecCompact == InitSeq /\ [][NextCompact]_vars

----------------------------------------------------------------------------
(* SpecHistory: restores, compacts and deletes, one at a time, over a directory
   with two archived transcripts of the session, with or without time passing
   between them *)

MaxHistoryOps == 3

BakS1 == ActiveS1 \o <<".">> \o ReasonBak \o <<".">> \o ExampleTs(2)

InitHistory ==
  /\ store = Put(EmptyMap, GroupKeys[1], FullEntry(Sid(1)))
  /\ files = Put(InitFiles, BakS1, <<6, 7>>)
  /\ InitRest

NextHistory ==
  \/ /\ issued < MaxHistoryOps
     /\ \/ \E file \in DOMAIN files, keyOpt \in {Undef, Some(GroupKeys[1])} :
             RestoreRequest(1, file, keyOpt, {})
        \/ CmdRestoreList(1, GroupKeys[1], FALSE, {})
        \/ \E index \in 1..2 : CmdRestoreIndex(1, GroupKeys[1], index, {})
        \/ \E m \in {[kind |-> "number", tenths |-> 25],
                     [kind |-> "number", tenths |-> -5]} :
             CompactRequest(1, GroupKeys[1], m)
        \/ DeleteRequest(1, GroupKeys[1], TRUE)
  \/ RestoreEnter(1)
  \/ RestoreCommit(1)
  \/ CmdRestoreEnter(1)
  \/ CmdRestoreCommit(1)
  \/ CompactEnter1(1)
  \/ CompactCommit1(1)
  \/ CompactIO(1)
  \/ CompactEnter2(1)
  \/ CompactCommit2(1)
  \/ DeleteWaitEnded(1)
  \/ DeleteEnter(1)
  \/ DeleteCommit(1)
  \/ DeleteArchive(1, {})
  \/ Tick

SpecHistory == InitHistory /\ [][NextHistory]_vars

----------------------------------------------------------------------------
(* SpecScan: the two listings of a directory whose reads can fail *)

MaxScanOps == 2

NextScan ==
  \/ /\ issued < MaxScanOps
     /\ \/ \E limitOpt \in LimitInputs, dirFails \in BOOLEAN,
              unreadable \in SUBSET DOMAIN files :
             ArchivedRequest(1, limitOpt, dirFails, unreadable)
        \/ \E dirFails \in BOOLEAN, unreadable \in SUBSET DOMAIN files :
             CmdRestoreList(1, GroupKeys[1], dirFails, unreadable)
        \/ DeleteRequest(1, GroupKeys[1], TRUE)
  \/ DeleteWaitEnded(1)
  \/ DeleteEnter(1)
  \/ DeleteCommit(1)
  \/ DeleteArchive(1, {})
  \/ Tick

SpecScan == InitSeq /\ [][NextScan]_vars

----------------------------------------------------------------------------
(* SpecRename: restores, by request and by text command, whose renames can throw *)

MaxRenameOps == 2

NextRename ==
  \/ /\ issued < MaxRenameOps
     /\ \/ \E file \in DOMAIN files, keyOpt \in {Undef, Some(GroupKeys[1])},
              renameFails \in SUBSET {1, 2} :
             RestoreRequest(1, file, keyOpt, renameFails)
        \/ CmdRestoreList(1, GroupKeys[1], FALSE, {})
        \/ \E index \in 1..2, renameFails \in SUBSET {1, 2} :
             CmdRestoreIndex(1, GroupKeys[1], index, renameFails)
  \/ RestoreEnter(1)
  \/ RestoreCommit(1)
  \/ CmdRestoreEnter(1)
  \/ CmdRestoreCommit(1)
  \/ Tick

SpecRename == InitHistory /\ [][NextRename]_vars

----------------------------------------------------------------------------
(* SpecAuth: the text commands, one at a time, from authorized and unauthorized
   senders *)

MaxAuthOps == 2

NextAuth ==
  \/ /\ issued < MaxAuthOps
     /\ \E authorized \in BOOLEAN, storePath \in BOOLEAN :
          \/ \E isGroup \in BOOLEAN, modeOpt \in {Undef, Some("always")} :
               ActivationCommand(1, GroupKeys[1], isGroup, modeOpt, storePath,
                                 authorized)
          \/ \E modeOpt \in {Undef, Some("deny"), Some("inherit")} :
               SendPolicyCommand(1, GroupKeys[1], modeOpt, storePath, authorized)
          \/ \E enabled \in BOOLEAN, hasListener \in BOOLEAN, restartOk \in BOOLEAN :
               RestartCommand(1, enabled, hasListener, restartOk, authorized)
          \/ \E kind \in {"stop", "abort"}, sessionKey \in AmbientKeys,
                hasAbortKey \in BOOLEAN :
               StopRequest(1, kind, sessionKey, Undef, storePath,
                           IF hasAbortKey THEN Some(sessionKey) ELSE Undef, authorized)
          \/ \E index \in 0..1 : RestoreCommand(1, GroupKeys[1], index, authorized)
  \/ SetterEnter(1)
  \/ SetterCommit(1)
  \/ StopEnter(1)
  \/ StopCommit(1)
  \/ StopFinish(1)
  \/ CmdRestoreEnter(1)
  \/ CmdRestoreCommit(1)
  \/ Tick

SpecAuth == InitHistory /\ [][NextAuth]_vars

----------------------------------------------------------------------------
(* SpecMigrate: the migration step alone, on every store of the group session *)

MaxMigrations == 2

(* Every store over the keys of the group session, an entry of the main session
   alongside or not. *)
MigrateEntries == {FullEntry(Sid(1)), BareEntry(Sid(2)), BareEntry(Sid(3))}

MigrateStores ==
  WithMain(UNION {[ks -> MigrateEntries] : ks \in SUBSET GroupAliases})

(* The first statements of a guarded update's callback, for a request addressed
   by key: the entry is looked for under every store key and moved to the primary
   one. *)
MigrateStep(p, key) ==
  /\ req[p].pc = "idle"
  /\ issued' = issued + 1
  /\ LET storeKeys == StoreKeys(key)
     IN  /\ req' = [req EXCEPT ![p] = [IdleReq EXCEPT !.op = "migrate", !.key = key,
                                          !.keyOpt = FindExisting(store, storeKeys)]]
         /\ store' = Migrate(store, storeKeys)
  /\ UNCHANGED <<lock, files, clock, runs, nextId, cache, abortMemory>>

InitMigrate ==
  /\ store \in MigrateStores
  /\ files = EmptyMap
  /\ InitRest

NextMigrate ==
  \E p \in Slots, key \in GroupAliases :
    /\ issued < MaxMigrations
    /\ MigrateStep(p, key)

SpecMigrate == InitMigrate /\ [][NextMigrate]_vars

----------------------------------------------------------------------------
(* SpecPurge: deletes of the group session, addressed by any of its keys, from
   every store over those keys, each followed or not by a later operation's
   migration step *)

MaxPurgeOps == 2

InitPurge ==
  /\ store \in MigrateStores
  /\ files = InitFiles
  /\ InitRest

NextPurge ==
  \/ /\ issued < MaxPurgeOps
     /\ \/ \E key \in GroupAliases, deleteTranscript \in BOOLEAN :
             DeleteRequest(1, key, deleteTranscript)
        \/ \E key \in GroupAliases : MigrateStep(1, key)
  \/ DeleteWaitEnded(1)
  \/ DeleteEnter(1)
  \/ DeleteCommit(1)
  \/ DeleteArchive(1, {})

SpecPurge == InitPurge /\ [][NextPurge]_vars

(* C1: once every one of the N issued counter-incrementing guarded updates of the
   store path has completed, the persisted counter of the session is its initial
   value plus N, whatever the interleaving of their suspension points. *)
C1_NoLostUpdate ==
  (Quiescent /\ issued > 0) =>
    /\ Has(store, GroupKeys[1])
    /\ store[GroupKeys[1]]["counter"] = Some(InitCounter + issued)

(* All MaxUpdates updates, issued from every slot, have been persisted. *)
C1_Witness ==
  /\ Quiescent
  /\ issued = MaxUpdates
  /\ \A p \in Procs : req[p].resp = "ok"
  /\ Has(store, GroupKeys[1])
  /\ store[GroupKeys[1]]["counter"] = Some(InitCounter + MaxUpdates)

----------------------------------------------------------------------------
(* sessions.delete against live runs and the protected key *)

(* The step is slot p's handler taking a new request. *)
Issues(p) ==
  /\ issued' = issued + 1
  /\ req[p].pc = "idle"
  /\ \A q \in Procs \ {p} : req'[q] = req[q]

(* The persisted entries a step removes. *)
RemovedKeys == DOMAIN store \ DOMAIN store'

(* C2: at the step where the guarded update of a delete persists the store without
   the session's entry, every entry it removes either has no session id, or has no
   embedded run in flight for its session id, or has the session id whose run the
   wait of this delete confirmed ended; a delete that read no session id when it
   was issued is left out. *)
C2_NoRemovalUnderLiveRun ==
  [][\A p \in Slots :
       (/\ req[p].pc = "delete.commit"
        /\ req'[p].pc = "delete.archive"
        /\ IsDef(req[p].sessionId)) =>
         \A k \in RemovedKeys :
           \/ ~IsDef(store[k]["sessionId"])
           \/ Val(store[k]["sessionId"]) \notin runs
           \/ store[k]["sessionId"] = req[p].sessionId]_vars

(* C3: when the wait of a delete returns while the run of the session is still in
   flight, the request answers UNAVAILABLE and ends there; the step changes neither
   the store nor the directory, the request has performed no store update and no
   archival, and when it is the only request issued the persisted entry is the one
   the delete read when it was issued. *)
C3_TimeoutLeavesEntry ==
  [][\A p \in Slots :
       (/\ req[p].op = "delete"
        /\ req[p].pc = "delete.wait"
        /\ req'[p] /= req[p]
        /\ Val(req[p].sessionId) \in runs) =>
         /\ req'[p].resp = "UNAVAILABLE"
         /\ req'[p].pc = "idle"
         /\ store' = store
         /\ files' = files
         /\ {"store", "archive"} \cap Range(req'[p].fx) = {}
         /\ issued = 1 =>
               /\ IsDef(req[p].entry)
               /\ LoadSessionEntry(req[p].key) = req[p].entry]_vars

(* A delete, the only request issued, has answered UNAVAILABLE while the entry it
   read is still persisted and its run still in flight. *)
C3_Witness ==
  \E p \in Slots :
    /\ issued = 1
    /\ req[p].op = "delete"
    /\ req[p].pc = "idle"
    /\ req[p].resp = "UNAVAILABLE"
    /\ IsDef(req[p].entry)
    /\ LoadSessionEntry(req[p].key) = req[p].entry
    /\ Val(req[p].sessionId) \in runs

(* C4: a delete whose key resolves to the main session key answers
   INVALID_REQUEST in the step that issues it, with no queue clearing, sub-agent
   stop, abort, store update or archival performed, and with the store, the
   directory, the runs and the lock as they were, whatever the store holds and
   whichever runs are in flight. *)
C4_MainKeyRejectedFirst ==
  [][\A p \in Slots :
       (/\ Issues(p)
        /\ req'[p].op = "delete"
        /\ CanonicalKey(req'[p].key) = MainKey) =>
         /\ req'[p].resp = "INVALID_REQUEST"
         /\ req'[p].pc = "idle"
         /\ req'[p].fx = <<>>
         /\ store' = store
         /\ files' = files
         /\ runs' = runs
         /\ lock' = lock]_vars

(* The main session has an entry and a run in flight, and a delete by its alias
   was rejected. *)
C4_Witness ==
  \E p \in Slots :
    /\ req[p].op = "delete"
    /\ req[p].key = "main"
    /\ req[p].resp = "INVALID_REQUEST"
    /\ Has(store, MainKey)
    /\ Val(store[MainKey]["sessionId"]) \in runs

----------------------------------------------------------------------------
(* The store across the alias keys of a session *)

(* The keys of one logical session under which the store holds an entry. *)
EntriesOf(st, storeKeys) == {i \in 1..Len(storeKeys) : Has(st, storeKeys[i])}

(* C9: the persisted store holds an entry under at most one of the alias keys of
   the group session, and under at most one of those of the main session, after
   any interleaving of patch, reset, delete, compact and restore requests. *)
C9_OneEntryPerSession ==
  /\ Cardinality(EntriesOf(store, GroupKeys)) <= 1
  /\ Cardinality(EntriesOf(store, MainKeys)) <= 1

----------------------------------------------------------------------------
(* sessions.reset *)

ResetDropped ==
  Fields \ (AllowListed \cup {"sessionId", "updatedAt", "systemSent", "abortedLastRun"})

(* C10: the step that persists the guarded update of a reset, taken with the lock
   held since the update read the store, leaves at the canonical key an entry whose
   session id is defined and differs from the prior entry's and from every
   persisted one, whose systemSent and abortedLastRun are false, whose allow-listed
   fields equal the prior entry's, and whose every other field is absent; the
   entries of other sessions are untouched. *)
C10_ResetReplacesEntry ==
  [][\A p \in Slots :
       (req[p].pc = "reset.commit" /\ req'[p].pc = "idle") =>
         LET storeKeys == StoreKeys(req[p].key)
             primaryKey == storeKeys[1]
             prior == LoadSessionEntry(req[p].key)
             next == store'[primaryKey]
         IN  /\ lock = p
             /\ Has(store', primaryKey)
             /\ IsDef(next["sessionId"])
             /\ \A k \in DOMAIN store : store[k]["sessionId"] /= next["sessionId"]
             /\ next["systemSent"] = Some(FALSE)
             /\ next["abortedLastRun"] = Some(FALSE)
             /\ \A f \in AllowListed :
                  next[f] = IF IsDef(prior) THEN Val(prior)[f] ELSE Undef
             /\ \A f \in ResetDropped : next[f] = Undef
             /\ \A k \in DOMAIN store' \ Range(storeKeys) :
                  Has(store, k) /\ store'[k] = store[k]]_vars

(* A reset addressed by an alias has replaced an entry that had every field set:
   the levels survive, the transcript path and the token counters are gone. *)
C10_Witness ==
  \E p \in Slots :
    /\ req[p].op = "reset"
    /\ req[p].pc = "idle"
    /\ req[p].resp = "ok"
    /\ req[p].key = GroupKeys[2]
    /\ IsDef(req[p].entry)
    /\ Val(req[p].entry)["sessionFile"] = Some(ActiveS1)
    /\ Has(store, GroupKeys[1])
    /\ store[GroupKeys[1]]["thinkingLevel"] = Some(7)
    /\ store[GroupKeys[1]]["sessionFile"] = Undef
    /\ store[GroupKeys[1]]["totalTokens"] = Undef
    /\ store[GroupKeys[1]]["sessionId"] = Some(Uuid(1))

----------------------------------------------------------------------------
(* sessions.compact *)

(* The request of slot p is a compact that has ended with the given answer. *)
CompactEnded(p, resp) ==
  req[p].op = "compact" /\ req[p].pc = "idle" /\ req[p].resp = resp

(* C5: after a completed compact of a transcript of L non-empty lines under a
   budget of N lines, L > N, one file archived under bak for the session holds the
   whole original, the active path holds the last N non-empty lines of the original
   in their order, and the entry at the canonical key has no inputTokens,
   outputTokens or totalTokens; a compact that ends without compacting had L <= N. *)
C5_CompactKeepsLastLines ==
  \A p \in Procs :
    LET original == req[p].raw
        lines == NonEmptyLines(original)
        L == Len(lines)
        N == MaxLinesOf(req[p].maxLines)
        primaryKey == CanonicalKey(req[p].key)
    IN  /\ CompactEnded(p, "not compacted") => L <= N
        /\ CompactEnded(p, "compacted") =>
             /\ L > N
             /\ Len(req[p].archived) = 1
             /\ Has(files, req[p].archived[1])
             /\ files[req[p].archived[1]] = original
             /\ IsDef(MatchArchivedListing(req[p].archived[1]))
             /\ Val(MatchArchivedListing(req[p].archived[1])).reason = ReasonBak
             /\ Val(MatchArchivedListing(req[p].archived[1])).sessionId
                  = Val(req[p].sessionId)
             /\ Has(files, req[p].filePath)
             /\ Len(files[req[p].filePath]) = N
             /\ \A i \in 1..N : files[req[p].filePath][i] = lines[L - N + i]
             /\ Has(store, primaryKey)
             /\ \A f \in TokenCounters : store[primaryKey][f] = Undef

(* A transcript of three non-empty lines and a blank one was compacted to its last
   two lines, for an entry that had token counters. *)
C5_Witness ==
  /\ CompactEnded(1, "compacted")
  /\ MaxLinesOf(req[1].maxLines) = 2
  /\ req[1].raw = <<1, 0, 2, 3>>
  /\ files[ActiveS1] = <<2, 3>>
  /\ IsDef(req[1].entry)
  /\ Val(req[1].entry)["totalTokens"] = Some(7)

----------------------------------------------------------------------------
(* Archived transcripts and their restoration *)

(* The active path of the session an archived name belongs to. *)
ActivePathOf(file) == Val(MatchArchivedListing(file)).sessionId \o DotJsonl

(* The restore slot p has just taken went through all of its file work. *)
RestoredFiles(p) ==
  \/ req'[p].op = "restore" /\ (req'[p].resp = "ok" \/ req'[p].pc = "restore.lock")
  \/ req'[p].op = "cmd.restore" /\ req'[p].pc = "cmdrestore.lock"

(* C6: a sessions.restore of a file that exists in the directory and that
   sessions.archived lists as an archived transcript succeeds: its content is then
   at the active path of its session and the archived file is gone. The archived
   files of the directory include those that compact, delete and restore have
   produced. *)
C6_ArchivedRestores ==
  [][\A p \in Procs :
       (/\ Issues(p)
        /\ req'[p].op = "restore"
        /\ Has(files, req'[p].file)
        /\ IsDef(MatchArchivedListing(req'[p].file))) =>
         /\ RestoredFiles(p)
         /\ Has(files', ActivePathOf(req'[p].file))
         /\ files'[ActivePathOf(req'[p].file)] = files[req'[p].file]
         /\ ~Has(files', req'[p].file)]_vars

(* C7: when a restore, by request or by text command, goes through its file work
   while a file occupies the active path, the occupant's content is afterwards in
   a file archived under replaced for the same session, the active path holds the
   content of the restored archive, the archive is gone from its archived name, and
   the occupant was renamed before the archive was moved in. *)
C7_OccupantArchivedFirst ==
  [][\A p \in Procs :
       (/\ Issues(p)
        /\ RestoredFiles(p)
        /\ Has(files, ActivePathOf(req'[p].file))) =>
         LET file == req'[p].file
             active == ActivePathOf(file)
         IN  /\ Len(req'[p].archived) = 1
             /\ Has(files', req'[p].archived[1])
             /\ files'[req'[p].archived[1]] = files[active]
             /\ IsDef(MatchArchivedListing(req'[p].archived[1]))
             /\ Val(MatchArchivedListing(req'[p].archived[1])).reason = ReasonReplaced
             /\ ActivePathOf(req'[p].archived[1]) = active
             /\ Has(files', active)
             /\ files'[active] = files[file]
             /\ ~Has(files', file)
             /\ req'[p].fx = <<"archive", "rename">>]_vars

(* The archived transcript of s1 was restored by request over the active one:
   the active path holds the archive's lines, a replaced file the occupant's. *)
C7_Witness ==
  /\ req[1].op = "restore"
  /\ req[1].file = ArchivedS1
  /\ req[1].resp = "ok"
  /\ Len(req[1].archived) = 1
  /\ Has(files, req[1].archived[1])
  /\ files[req[1].archived[1]] = <<1, 0, 2, 3>>
  /\ files[ActiveS1] = <<8, 9>>

----------------------------------------------------------------------------
(* The migration step *)

(* C8: from a store whose only entry of the session is under a non-canonical
   alias A, the first migration step gives the store with that same entry under
   the canonical key B and nothing under A, every other entry as it was; any later
   migration step, addressed by whichever alias, leaves the store as it is. *)
C8_MigrationIdempotent ==
  [][\A p \in Slots :
       (Issues(p) /\ req'[p].op = "migrate") =>
         /\ \A i \in 2..Len(GroupKeys) :
              (issued = 0 /\ EntriesOf(store, GroupKeys) = {i}) =>
                /\ store' = Put(Del(store, GroupKeys[i]), GroupKeys[1],
                                store[GroupKeys[i]])
                /\ DOMAIN store' = (DOMAIN store \ {GroupKeys[i]}) \cup {GroupKeys[1]}
                /\ \A f \in Fields : store'[GroupKeys[1]][f] = store[GroupKeys[i]][f]
         /\ issued >= 1 => store' = store]_vars

(* The first step found the entry under the alias legacy:grp, the second found it
   under the canonical key, and the store holds it there and nowhere else. *)
C8_Witness ==
  /\ issued = 2
  /\ req[1].op = "migrate"
  /\ req[1].keyOpt = Some(GroupKeys[3])
  /\ req[2].op = "migrate"
  /\ req[2].keyOpt = Some(GroupKeys[1])
  /\ store = Put(EmptyMap, GroupKeys[1], FullEntry(Sid(1)))

----------------------------------------------------------------------------
(* Parameter validation *)

(* C11: a request of any RPC operation whose params fail the schema is answered
   INVALID_REQUEST in the step that takes it, with no collaborator or file system
   call made, and that step leaves the store, the directory, the runs, the lock,
   the cache and the id counter as they were. *)
C11_InvalidParamsNoEffect ==
  [][\A p \in Procs :
       (Issues(p) /\ ~req'[p].valid) =>
         /\ req'[p].op \in RpcOps
         /\ req'[p].resp = "INVALID_REQUEST"
         /\ req'[p].pc = "idle"
         /\ req'[p].fx = <<>>
         /\ UNCHANGED <<store, files, runs, lock, cache, nextId, abortMemory>>]_vars

(* A delete with invalid params was rejected while a run was in flight and a
   valid delete of the other slot was inside its guarded update. *)
C11_Witness ==
  \E p, q \in Slots :
    /\ req[p].op = "delete"
    /\ ~req[p].valid
    /\ req[p].resp = "INVALID_REQUEST"
    /\ req[q].op = "delete"
    /\ req[q].pc = "delete.commit"
    /\ lock = q
    /\ runs /= {}
    /\ store /= EmptyMap

----------------------------------------------------------------------------
(* The order of the archived listings *)

DigitValue(c) == CHOOSE n \in 0..9 : Digit(n) = c

(* The archiver's timestamps end in .sssZ; the listing example's end in Z. *)
HasMillis(ts) == Len(ts) = 24 /\ ts[20] = "."

(* The instant a timestamp YYYY-MM-DDTHH-mm-ss[.sss]Z names: year, month, day,
   hour, minute, second, millisecond. *)
InstantOf(ts) ==
  <<1000 * DigitValue(ts[1]) + 100 * DigitValue(ts[2]) + 10 * DigitValue(ts[3])
      + DigitValue(ts[4]),
    10 * DigitValue(ts[6]) + DigitValue(ts[7]),
    10 * DigitValue(ts[9]) + DigitValue(ts[10]),
    10 * DigitValue(ts[12]) + DigitValue(ts[13]),
    10 * DigitValue(ts[15]) + DigitValue(ts[16]),
    10 * DigitValue(ts[18]) + DigitValue(ts[19]),
    IF HasMillis(ts)
    THEN 100 * DigitValue(ts[21]) + 10 * DigitValue(ts[22]) + DigitValue(ts[23])
    ELSE 0>>

(* Instant a is before instant b. *)
Before(a, b) ==
  \E k \in 1..7 : (\A i \in 1..(k - 1) : a[i] = b[i]) /\ a[k] < b[k]

TimestampOf(name) == Val(MatchArchivedListing(name)).timestamp

(* Both names carry the archiver's timestamp format, or both the example's. *)
SameFormat(a, b) == HasMillis(TimestampOf(a)) = HasMillis(TimestampOf(b))

(* The listing l of the archived files names, cut at limit: no record is listed
   after an older one, and no file left out is newer than a listed one. *)
NewestFirst(l, names, limit) ==
  /\ Len(l) = (IF Cardinality(names) < limit THEN Cardinality(names) ELSE limit)
  /\ \A i \in 1..Len(l) : l[i].file \in names
  /\ \A i, j \in 1..Len(l) :
       (i < j /\ SameFormat(l[i].file, l[j].file)) =>
         ~Before(InstantOf(TimestampOf(l[i].file)), InstantOf(TimestampOf(l[j].file)))
  /\ \A n \in names \ {l[i].file : i \in 1..Len(l)} :
       \A i \in 1..Len(l) :
         SameFormat(n, l[i].file) =>
           ~Before(InstantOf(TimestampOf(l[i].file)), InstantOf(TimestampOf(n)))

(* C12: the list sessions.archived answers, and the list /restore shows and
   caches, hold the archived files their pattern matches newest first by the
   instant in the file name, cut at the limit with no file left out that is newer
   than a listed one; instants are compared between names of one format, the
   archiver's (with milliseconds) or the listing example's (without). *)
C12_ListingNewestFirst ==
  \A p \in Procs :
    /\ (req[p].op = "archived" /\ req[p].resp = "ok") =>
         NewestFirst(req[p].listed,
                     {x \in DOMAIN files : IsDef(MatchArchivedListing(x))},
                     req[p].kept)
    /\ (req[p].op = "cmd.list" /\ req[p].resp = "listed") =>
         NewestFirst(cache[req[p].key],
                     {x \in DOMAIN files : IsDef(MatchRestore(x))}, ListLimit)

(* Of four archived files, two from the archiver a millisecond apart and the two
   of the example, sessions.archived with limit 2 answered two of one format, the
   later first. *)
C12_Witness ==
  /\ req[1].op = "archived"
  /\ req[1].kept = 2
  /\ Cardinality({x \in DOMAIN files : IsDef(MatchArchivedListing(x))}) = 4
  /\ Cardinality({x \in DOMAIN files : IsDef(MatchArchivedListing(x))
                                        /\ HasMillis(TimestampOf(x))}) = 2
  /\ Len(req[1].listed) = 2
  /\ SameFormat(req[1].listed[1].file, req[1].listed[2].file)
  /\ Before(InstantOf(TimestampOf(req[1].listed[2].file)),
            InstantOf(TimestampOf(req[1].listed[1].file)))

----------------------------------------------------------------------------
(* Restore of a file that is gone *)

(* C13: a restore, by request or by text command, of an archived file the
   directory no longer holds is answered NOT_FOUND in the step that takes it, with
   no rename and no store update made: the directory, with any file at the active
   path, and the store are as they were. *)
C13_MissingFileNotFound ==
  [][\A p \in Procs :
       (/\ Issues(p)
        /\ req'[p].op \in {"restore", "cmd.restore"}
        /\ req'[p].file /= <<>>
        /\ ~Has(files, req'[p].file)) =>
         /\ req'[p].resp = "NOT_FOUND"
         /\ req'[p].pc = "idle"
         /\ req'[p].fx = <<>>
         /\ files' = files
         /\ store' = store]_vars

(* sessions.restore of a missing archived file of s1 answered NOT_FOUND while the
   active transcript of s1 is in place. *)
C13_Witness ==
  /\ req[1].op = "restore"
  /\ req[1].file = MissingS1
  /\ req[1].resp = "NOT_FOUND"
  /\ Has(files, ActiveS1)
  /\ files[ActiveS1] = <<1, 0, 2, 3>>

----------------------------------------------------------------------------
(* /stop and abort triggers *)

StopOps == {"stop", "abort"}

(* The step in which request p of /stop or of an abort trigger returns its reply. *)
StopCompletes(p) ==
  /\ req'[p].op \in StopOps
  /\ req'[p].pc = "idle"
  /\ req'[p].resp = "ok"
  /\ Issues(p) \/ (req[p].pc = "stop.hook" /\ req'[p] /= req[p])
       \/ (req[p].pc = "stop.commit" /\ req'[p] /= req[p])

(* C14: a /stop or abort trigger that carries an override key other than the
   ambient key resolves to the override key and to the session id of the entry
   stored under it (none when it has no entry), and so never to the ambient key,
   whose run is not the one aborted and whose entry is not the one marked. *)
C14_OverrideIsTarget ==
  [][\A p \in Procs :
       (/\ Issues(p)
        /\ req'[p].op \in StopOps
        /\ req'[p].resp /= "ignored"
        /\ IsDef(req'[p].keyOpt)
        /\ Val(req'[p].keyOpt) /= req'[p].key) =>
         LET override == Val(req'[p].keyOpt)
         IN  /\ req'[p].targetKey = Some(override)
             /\ req'[p].targetKey /= Some(req'[p].key)
             /\ req'[p].sessionId =
                  (IF Has(store, override) THEN store[override]["sessionId"]
                   ELSE Undef)
             /\ (Has(store, req'[p].key) /\ IsDef(req'[p].sessionId)) =>
                  req'[p].sessionId /= store[req'[p].key]["sessionId"]]_vars

(* C15: when a /stop or an abort trigger returns its reply, either the target it
   resolved had a store entry and the persisted entry under the target key has
   abortedLastRun true, or it had none, the abort flag of the target key or of
   the ambient key is set, and the request made no store update. *)
C15_OneRecordOfAbort ==
  [][\A p \in Procs :
       StopCompletes(p) =>
         LET r == req'[p]
             k == Val(r.targetKey)
         IN  IF IsDef(r.entry)
             THEN /\ Has(store', k)
                  /\ store'[k]["abortedLastRun"] = Some(TRUE)
             ELSE /\ abortMemory' \cap {k, r.key} /= {}
                  /\ "store" \notin Range(r.fx)]_vars

(* C16: when a /stop or an abort trigger returns its reply, its calls were, in
   this order: the abort of the run of the target's session id if it has one, the
   cancellation of the queued work of the target key and that session id, the
   record of the abort if any, the hook, the sub-process stopper. *)
C16_StopStepsInOrder ==
  [][\A p \in Procs :
       StopCompletes(p) =>
         LET r == req'[p]
         IN  /\ r.fx \in {(IF IsDef(r.sessionId) THEN <<"abort">> ELSE <<>>)
                            \o <<"clearQueues">> \o record
                            \o <<"notify", "stopSubagents">> :
                          record \in {<<>>, <<"store">>, <<"setAbortMemory">>}}
             /\ r.queueKeys = [keys |-> {Val(r.targetKey)},
                               ids |-> IF IsDef(r.sessionId)
                                       THEN {Val(r.sessionId)} ELSE {}]]_vars

----------------------------------------------------------------------------
(* The order of the steps of sessions.delete *)

IsPrefix(a, b) == Len(a) <= Len(b) /\ \A i \in 1..Len(a) : a[i] = b[i]

(* The calls of a delete that archives n files, in the order of the claim. *)
DeleteSteps(sessionId, n) ==
  <<"clearQueues", "stopSubagents">>
    \o (IF IsDef(sessionId) THEN <<"abort">> ELSE <<>>)
    \o <<"store">> \o [i \in 1..n |-> "archive"]

(* C17: a sessions.delete of a key that is not the main session's has, at every
   moment, made a prefix of these calls in this order: cancel the queued work of
   every alias key, the canonical key and the session id; stop the sub-agents of
   the canonical key; abort the run when the entry has a session id; the store
   update; the archival of each transcript. While it waits for the run it has made
   no store update, an UNAVAILABLE answer ends it there, a success answer comes
   after the store update, and it has archived nothing before the store update. *)
C17_DeleteStepsInOrder ==
  \A p \in Procs :
    (req[p].op = "delete" /\ req[p].valid /\ req[p].resp /= "INVALID_REQUEST") =>
      LET r == req[p]
          called == DeleteSteps(r.sessionId, 0)
      IN  /\ \E n \in 0..2 : IsPrefix(r.fx, DeleteSteps(r.sessionId, n))
          /\ Len(r.fx) >= Len(called) - 1
          /\ r.queueKeys.keys = Range(StoreKeys(r.key)) \cup {CanonicalKey(r.key)}
          /\ r.queueKeys.ids = (IF IsDef(r.sessionId) THEN {Val(r.sessionId)} ELSE {})
          /\ r.pc = "delete.wait" => "store" \notin Range(r.fx)
          /\ r.resp = "UNAVAILABLE" => "store" \notin Range(r.fx)
          /\ r.resp = "ok" => "store" \in Range(r.fx)
          /\ r.archived /= <<>> => "store" \in Range(r.fx)
          /\ Len(r.archived) = Cardinality({i \in 1..Len(r.fx) : r.fx[i] = "archive"})

(* A delete of session s1 by the alias "grp" answered success after all five
   steps, one transcript archived. *)
C17_Witness ==
  \E p \in Slots :
    /\ req[p].op = "delete"
    /\ req[p].key = GroupKeys[2]
    /\ req[p].resp = "ok"
    /\ req[p].fx = DeleteSteps(Some(Sid(1)), 1)
    /\ Len(req[p].archived) = 1
    /\ Has(files, req[p].archived[1])
    /\ ~Has(files, ActiveS1)
    /\ \A i \in 1..Len(GroupKeys) : ~Has(store, GroupKeys[i])

----------------------------------------------------------------------------
(* Archival failures inside sessions.delete *)

(* Request p takes the step that runs the archive loop of its delete. *)
DeleteArchives(p) == req[p].pc = "delete.archive" /\ req'[p].pc = "idle"

(* C18: the step of a sessions.delete that runs the archive loop answers success
   whichever archivals throw, leaves the store as the removal left it, with no
   entry under the canonical key, and returns exactly the archived names of the
   candidates that existed and whose archival did not throw, in candidate order:
   each of those files is at its archived name, every other candidate is where
   it was, and a candidate after a failed one is archived all the same. *)
C18_ArchiveFailuresSwallowed ==
  [][\A p \in Procs :
       DeleteArchives(p) =>
         LET r == req'[p]
             candidates == IF r.deleteTranscript /\ IsDef(r.sessionId)
                           THEN TranscriptCandidates(Val(r.sessionId),
                                  SessionFileOf(r.entry))
                           ELSE <<>>
             succeeded == {i \in 1..Len(candidates) :
                             Has(files, candidates[i]) /\ i \notin r.failed}
             nameOf(i) == ArchivedName(candidates[i], ReasonDeleted, clock)
         IN  /\ r.resp = "ok"
             /\ "store" \in Range(r.fx)
             /\ store' = store
             /\ ~Has(store', CanonicalKey(r.key))
             /\ Len(r.archived) = Cardinality(succeeded)
             /\ \A i, j \in succeeded :
                  i < j => \E a, b \in 1..Len(r.archived) :
                             a < b /\ r.archived[a] = nameOf(i)
                                   /\ r.archived[b] = nameOf(j)
             /\ \A i \in succeeded :
                  /\ nameOf(i) \in Range(r.archived)
                  /\ Has(files', nameOf(i))
                  /\ files'[nameOf(i)] = files[candidates[i]]
                  /\ ~Has(files', candidates[i])
             /\ \A i \in (1..Len(candidates)) \ succeeded :
                  /\ Has(files', candidates[i]) = Has(files, candidates[i])
                  /\ Has(files, candidates[i]) =>
                       files'[candidates[i]] = files[candidates[i]]
             /\ \A f \in DOMAIN files \ Range(candidates) :
                  Has(files', f) /\ files'[f] = files[f]]_vars

(* The archival of the first candidate of a delete threw, the second was
   archived: success, the entry gone, the first transcript still in place. *)
C18_Witness ==
  \E p \in Slots :
    /\ req[p].op = "delete"
    /\ req[p].resp = "ok"
    /\ req[p].failed = {1}
    /\ Len(req[p].archived) = 1
    /\ Has(files, TopicS1)
    /\ ~Has(files, ActiveS1)
    /\ Has(files, req[p].archived[1])
    /\ \A i \in 1..Len(GroupKeys) : ~Has(store, GroupKeys[i])

----------------------------------------------------------------------------
(* sessions.compact within the budget *)

(* b is the budget of a maxLines parameter: 400 unless it is a finite number x,
   and then the largest integer not above x, or 1 when that is below 1. *)
BudgetIs(m, b) ==
  IF m.kind = "number"
  THEN IF m.tenths >= 10 THEN 10 * b <= m.tenths /\ m.tenths < 10 * (b + 1)
       ELSE b = 1
  ELSE b = 400

(* The non-empty lines of the transcript request p is about to read. *)
LinesAt(p) ==
  LET entry == Val(req[p].entry)
      byId == Val(entry["sessionId"]) \o DotJsonl
      named == entry["sessionFile"]
      path == IF IsDef(named) /\ Has(files, Val(named)) THEN Val(named) ELSE byId
  IN  IF Has(files, path)
      THEN Some(Cardinality({i \in 1..Len(files[path]) : files[path][i] /= 0}))
      ELSE Undef

(* C19: the step of a sessions.compact that reads a transcript with at most the
   budget's number of non-empty lines ends the request with compacted false and
   that number kept, leaves every file and the store as they were, and has
   archived and written nothing; the one store update the request made before,
   its first section, left every entry as it was, token counters and updatedAt
   included, moving it to the canonical key at most. *)
C19_WithinBudgetNoOp ==
  [][\A p \in Procs :
       /\ (/\ req[p].op = "compact"
           /\ req[p].pc = "compact.io"
           /\ req'[p] /= req[p]
           /\ IsDef(req[p].entry)
           /\ IsDef(Val(req[p].entry)["sessionId"])
           /\ IsDef(LinesAt(p))
           /\ \E b \in 1..400 : BudgetIs(req[p].maxLines, b) /\ Val(LinesAt(p)) <= b) =>
            /\ req'[p].pc = "idle"
            /\ req'[p].resp = "not compacted"
            /\ req'[p].kept = Val(LinesAt(p))
            /\ req'[p].archived = <<>>
            /\ req'[p].fx = <<"store">>
            /\ files' = files
            /\ store' = store
            /\ lock' = lock
       /\ (/\ req[p].op = "compact"
           /\ req[p].pc = "compact.commit1"
           /\ req'[p] /= req[p]) =>
            /\ {store'[k] : k \in DOMAIN store'} = {store[k] : k \in DOMAIN store}
            /\ \A k \in DOMAIN store' :
                 Has(store, k) \/ k = CanonicalKey(req[p].key)
            /\ IsDef(req[p].entry) =>
                 store'[CanonicalKey(req[p].key)] = Val(req[p].entry)]_vars

(* A compact with maxLines 3.5 of a transcript of three non-empty lines and a
   blank one ended without compacting: the transcript and the entry's token
   counters and updatedAt are as they were. *)
C19_Witness ==
  /\ CompactEnded(1, "not compacted")
  /\ req[1].maxLines = [kind |-> "number", tenths |-> 35]
  /\ req[1].kept = 3
  /\ files[ActiveS1] = <<1, 0, 2, 3>>
  /\ ~\E f \in DOMAIN files : IsDef(MatchArchivedListing(f))
                                /\ Val(MatchArchivedListing(f)).reason = ReasonBak
                                /\ Val(MatchArchivedListing(f)).sessionId = Sid(1)
  /\ Has(store, GroupKeys[1])
  /\ \A f \in TokenCounters : store[GroupKeys[1]][f] = Some(7)
  /\ store[GroupKeys[1]]["updatedAt"] = Some(0)
  /\ clock > 0

----------------------------------------------------------------------------
(* sessions.compact and the store's exclusive section *)

(* Request p is a compact between its two sections: about to do its transcript
   work, or done with it and about to take the section again. *)
BetweenSections(p) ==
  req[p].op = "compact" /\ req[p].pc \in {"compact.io", "compact.lock2"}

(* Request q waits to enter the exclusive section for its guarded update. *)
AtSection(q) ==
  req[q].pc \in {"patch.lock", "reset.lock", "delete.lock", "restore.lock",
                 "compact.lock1", "compact.lock2"}

(* Request q can take the step that enters the section. *)
CanEnter(q) ==
  ENABLED (PatchEnter(q) \/ ResetEnter(q) \/ DeleteEnter(q) \/ RestoreEnter(q)
             \/ CompactEnter1(q) \/ CompactEnter2(q))

(* C20: a sessions.compact holds the exclusive section only inside its two
   guarded updates: between them, where it reads, archives and rewrites the
   transcript, it does not hold it, its calls so far are the first store update
   and then the archival and the write, and a request waiting to enter the
   section is held up by no one but a third request inside its own update. *)
C20_CompactIoUnlocked ==
  \A p \in Procs :
    /\ (req[p].op = "compact" /\ lock = p) =>
         req[p].pc \in {"compact.commit1", "compact.commit2"}
    /\ BetweenSections(p) =>
         /\ lock /= p
         /\ req[p].pc = "compact.io" => req[p].fx = <<"store">>
         /\ req[p].pc = "compact.lock2" => req[p].fx = <<"store", "archive", "write">>
         /\ \A q \in Procs \ {p} :
              (AtSection(q) /\ lock \notin Procs \ {p, q}) => CanEnter(q)

(* While a compact had rewritten the transcript and had not yet finalized, a
   patch of the same session entered the section and was persisted: the entry
   the compact read in its first section has the old label, the store the new. *)
C20_Witness ==
  \E p, q \in Slots :
    /\ req[p].op = "compact"
    /\ req[p].pc = "compact.lock2"
    /\ req[p].fx = <<"store", "archive", "write">>
    /\ IsDef(req[p].entry)
    /\ Val(req[p].entry)["label"] /= Some("L2")
    /\ req[q].op = "patch"
    /\ req[q].pc = "idle"
    /\ Has(store, GroupKeys[1])
    /\ store[GroupKeys[1]]["label"] = Some("L2")
    /\ lock = 0

----------------------------------------------------------------------------
(* The migration step on a store with a canonical entry *)

(* C21: a migration step, addressed by whichever alias, on a store with an entry
   under the canonical key and an entry under another alias leaves the store as
   it is: the same keys, the canonical entry and every alias entry field by field
   as they were. *)
C21_CanonicalWins ==
  [][\A p \in Slots :
       (/\ Issues(p)
        /\ req'[p].op = "migrate"
        /\ Has(store, GroupKeys[1])
        /\ \E i \in 2..Len(GroupKeys) : Has(store, GroupKeys[i])) =>
         /\ DOMAIN store' = DOMAIN store
         /\ \A k \in DOMAIN store : \A f \in Fields : store'[k][f] = store[k][f]]_vars

(* A migration step addressed by the alias "grp" ran on a store with the entry
   of s1 under the canonical key and the entry of s2 under "grp", and both are
   where they were. *)
C21_Witness ==
  /\ issued = 1
  /\ \E p \in Slots : req[p].op = "migrate" /\ req[p].key = GroupKeys[2]
                        /\ req[p].keyOpt = Some(GroupKeys[1])
  /\ DOMAIN store = {GroupKeys[1], GroupKeys[2]}
  /\ store[GroupKeys[1]] = FullEntry(Sid(1))
  /\ store[GroupKeys[2]] = BareEntry(Sid(2))

----------------------------------------------------------------------------
(* The history of archived files *)

(* The step is a restore, by request or by text command, that moves the archived
   file f into place. *)
RestoresFile(f) ==
  \E p \in Procs :
    /\ Issues(p)
    /\ req'[p].op \in {"restore", "cmd.restore"}
    /\ req'[p].file = f
    /\ "rename" \in Range(req'[p].fx)
    /\ Has(files', RestoredPath(f))
    /\ files'[RestoredPath(f)] = files[f]

(* C22: a step of a delete, a compact or a restore leaves every archived file
   of the directory under its name with its content, unless the step is the
   restore of that very file; this also when two archivals of one path under one
   reason get the same timestamp. *)
C22_ArchivedFilesAppendOnly ==
  [][\A f \in DOMAIN files :
       IsDef(MatchArchivedListing(f)) =>
         \/ Has(files', f) /\ files'[f] = files[f]
         \/ RestoresFile(f)]_vars

----------------------------------------------------------------------------
(* The listings when reads fail *)

(* The files of a listing: the whole list, or the first limit of it. *)
ListsExactly(l, names, limit) ==
  /\ {l[i].file : i \in 1..Len(l)} \subseteq names
  /\ Len(l) = (IF Cardinality(names) < limit THEN Cardinality(names) ELSE limit)
  /\ \A i, j \in 1..Len(l) : i /= j => l[i].file /= l[j].file

(* C23: whichever reads fail, sessions.archived answers success and /restore
   list replies with a list or with "none", never with an error; the records
   are those of the files that match the listing's pattern and whose stat did not
   throw, none when the directory could not be read, cut at the limit. *)
C23_ListingNeverFails ==
  [][\A p \in Procs :
       /\ (Issues(p) /\ req'[p].op = "archived" /\ req'[p].valid) =>
            /\ req'[p].resp = "ok"
            /\ ListsExactly(req'[p].listed,
                 IF req'[p].dirFails THEN {}
                 ELSE {x \in DOMAIN files \ req'[p].unreadable :
                         IsDef(MatchArchivedListing(x))},
                 req'[p].kept)
       /\ (Issues(p) /\ req'[p].op = "cmd.list") =>
            LET names == IF req'[p].dirFails THEN {}
                         ELSE {x \in DOMAIN files \ req'[p].unreadable :
                                 IsDef(MatchRestore(x))}
            IN  /\ req'[p].resp = (IF names = {} THEN "none" ELSE "listed")
                /\ names /= {} =>
                     ListsExactly(cache'[req'[p].key], names, ListLimit)]_vars


----------------------------------------------------------------------------
(* Rename failures of a restore *)

(* The step is slot p's restore, by request or by text command, of an archived
   file that exists and is well named, reaching the renames. *)
RestoreReachesRenames(p) ==
  /\ Issues(p)
  /\ req'[p].op \in {"restore", "cmd.restore"}
  /\ req'[p].file /= <<>>
  /\ Has(files, req'[p].file)
  /\ IsDef(MatchRestore(req'[p].file))

(* The first rename of the step, the occupant's archival, throws. *)
FirstRenameFails(p) ==
  /\ Has(files, RestoredPath(req'[p].file))
  /\ 1 \in req'[p].failed

(* The second rename of the step, the move into place, throws after the first
   one, if there was one, went through. *)
SecondRenameFails(p) ==
  /\ ~FirstRenameFails(p)
  /\ 2 \in req'[p].failed

(* The request is answered with the file-system error and has no guarded update
   left to make. *)
RestoreAborted(p) ==
  /\ req'[p].resp = "INTERNAL_ERROR"
  /\ req'[p].pc = "idle"
  /\ store' = store
  /\ lock' = lock

(* C24: a restore whose rename throws is answered with the internal file-system
   error and never updates the store. When the occupant's archival throws, every
   file is where it was. When the move into place throws, the archived file is
   still under its archived name and the occupant, if there was one, stays under
   its "replaced" name, with the active path left empty. *)
C24_RenameFailureAborts ==
  [][\A p \in Procs :
       RestoreReachesRenames(p) =>
         LET file == req'[p].file
             restoredPath == RestoredPath(file)
         IN  /\ FirstRenameFails(p) => RestoreAborted(p) /\ files' = files
             /\ SecondRenameFails(p) =>
                   /\ RestoreAborted(p)
                   /\ Has(files', file) /\ files'[file] = files[file]
                   /\ Has(files, restoredPath) =>
                         /\ ~Has(files', restoredPath)
                         /\ Len(req'[p].archived) = 1
                         /\ req'[p].archived[1] =
                              ArchivedName(restoredPath, ReasonReplaced, clock)
                         /\ Has(files', req'[p].archived[1])
                         /\ files'[req'[p].archived[1]] = files[restoredPath]]_vars

(* A restore whose move into place threw: answered with the error, the occupant
   under its "replaced" name, the active path empty, the archived file in place. *)
C24_Witness ==
  \E p \in Procs :
    /\ req[p].op \in {"restore", "cmd.restore"}
    /\ req[p].failed = {2}
    /\ req[p].resp = "INTERNAL_ERROR"
    /\ Len(req[p].archived) = 1
    /\ Has(files, req[p].archived[1])
    /\ Has(files, req[p].file)
    /\ ~Has(files, RestoredPath(req[p].file))


----------------------------------------------------------------------------
(* A deleted session stays deleted *)

(* The step persists the removal of slot p's sessions.delete. *)
DeletePersists(p) == req[p].pc = "delete.commit" /\ req'[p].pc = "delete.archive"

(* C25: when a sessions.delete has persisted its removal, the store holds no
   entry under the canonical key of the session nor under any of its aliases, so
   the migration step of a later operation addressed to the key finds none;
   whichever keys of the session held entries before. *)
C25_DeletedStaysDeleted ==
  [][\A p \in Procs :
       DeletePersists(p) =>
         LET storeKeys == StoreKeys(req[p].key)
         IN  /\ \A i \in 1..Len(storeKeys) : ~Has(store', storeKeys[i])
             /\ FindExisting(Migrate(store', storeKeys), storeKeys) = Undef]_vars


----------------------------------------------------------------------------
(* What /stop persists *)

(* The step persists the guarded update of slot p's /stop or abort trigger. *)
StopPersists(p) == req[p].pc = "stop.commit" /\ req'[p].pc /= "stop.commit"

(* C26: the guarded update of /stop or of an abort trigger, on a key that holds
   an entry, changes at most the aborted-last-run flag and the timestamp of that
   entry: every other field keeps the value the store held just before the
   update, whatever was committed to the key since the handler took its
   snapshot. *)
C26_StopTouchesTwoFields ==
  [][\A p \in Procs :
       (StopPersists(p) /\ Has(store, Val(req[p].targetKey))) =>
         LET key == Val(req[p].targetKey)
         IN  /\ Has(store', key)
             /\ \A f \in Fields \ {"abortedLastRun", "updatedAt"} :
                   store'[key][f] = store[key][f]]_vars


----------------------------------------------------------------------------
(* Compact's finalizing update *)

(* The step persists the finalizing update of slot p's compact. *)
CompactFinalizes(p) == req[p].pc = "compact.commit2" /\ req'[p].pc = "idle"

(* C27: the finalizing update of a compact does not re-create an entry deleted
   since the compact read it, leaving the store as it is; and when the key now
   holds an entry of another session id than the one compacted, it leaves that
   entry's token counters and timestamp as they are. *)
C27_FinalizeSparesOthers ==
  [][\A p \in Procs :
       CompactFinalizes(p) =>
         LET key == CanonicalKey(req[p].key)
         IN  /\ ~Has(store, key) => store' = store
             /\ (Has(store, key) /\ store[key]["sessionId"] /= req[p].sessionId) =>
                   /\ Has(store', key)
                   /\ \A f \in TokenCounters \cup {"updatedAt"} :
                         store'[key][f] = store[key][f]]_vars


----------------------------------------------------------------------------
(* Unauthorized senders *)

TextCommands == {"activation", "send", "restart", "stop", "abort", "cmd.list",
                 "cmd.restore"}

(* C28: a text command of an unauthorized sender has no effect: the handler calls
   no collaborator (no run aborted, no queue cleared, no restart, no sub-agent
   stopped), changes no store entry, no ephemeral abort flag and no file, and is
   over, with no guarded update left to make. *)
C28_UnauthorizedNoEffect ==
  [][\A p \in Procs :
       (Issues(p) /\ req'[p].op \in TextCommands /\ ~req'[p].authorized) =>
         /\ req'[p].fx = <<>>
         /\ req'[p].pc = "idle"
         /\ store' = store
         /\ abortMemory' = abortMemory
         /\ files' = files
         /\ runs' = runs]_vars

====
